---------------------------- MODULE Spec2Model ----------------------------
(***************************************************************************)
(* Model of the rdoc search-index decoding core:                           *)
(*   - VlqHexDecoder (src/src/vlq.rs): a cursor over a byte string that    *)
(*     yields one signed integer per call of next();                       *)
(*   - decode_crate (src/src/search_items.rs): one pass over the parallel  *)
(*     arrays types/names of a CrateData that resolves every item.         *)
(* Strings whose bytes the code inspects (types, names, the stream i) are  *)
(* sequences of byte codes; paths are only cloned and compared and are     *)
(* TLA+ strings.  Rust's 0-based position k is index k + 1 of a sequence.  *)
(***************************************************************************)
EXTENDS Integers, Sequences, FiniteSets, TLC

VARIABLES
    crate_name,       \* decode_crate's first argument
    crate_data,       \* decode_crate's second argument (a CrateData)
    overflow_checks,  \* build profile: TRUE when u8 subtraction overflow panics
    pc,               \* "loop", "done", "panic" for decode_crate; "vlq" for the bare decoder
    i,                \* loop variable of `for i in 0..crate_data.types.len()`
    items,            \* the Vec<SearchItem> being built
    last_name,        \* reuse-chain state of names
    last_path,        \* reuse-chain state of paths
    decoder,          \* VlqHexDecoder { string, offset }
    calls,            \* history: one record per call of decoder.next()
    result,           \* what decode_crate returned, None before it returns
    symbol,           \* scan::execute's argument
    content,          \* the text of target/doc/search-index.js
    payload,          \* history: the payload the file was written from, if any
    parsed,           \* what serde_json makes of the extracted literal
    json_string,      \* what extract_json_string returned, None before
    crate_entries,    \* what parse_search_index returned, None before
    entry,            \* number of crate entries scan::execute has decoded
    all_items,        \* scan::execute's all_items
    report,           \* the number of results scan::execute printed, None before
    json,             \* a JSON value handed to the schema parser
    parse_result      \* what the schema parser made of json, None before

\* the state of scan::execute
scan_vars == <<symbol, content, payload, parsed, json_string, crate_entries, entry,
               all_items, report>>

\* the state of the schema parser
parse_vars == <<json, parse_result>>

vars == <<crate_name, crate_data, overflow_checks, pc, i, items, last_name,
          last_path, decoder, calls, result, scan_vars, parse_vars>>

-----------------------------------------------------------------------------
(* Bounds of the model *)

\* longest `types` string
MaxItems == 3
\* longest `paths` overlay
MaxPaths == 2
\* longest `reexports` overlay
MaxReexports == 2
\* longest VLQ stream
MaxStream == 4
\* longest `parent_items`
MaxParents == 2
\* calls of next() made on a bare decoder beyond the length of its string
ExtraCalls == 2
\* longest payload, and longest text after the opening delimiter of a raw file
MaxPayload == 3
\* most crate entries of one index file
MaxCrates == 2
\* longest string of the decoder runs that overflow the 32-bit accumulator
MaxLong == 9

-----------------------------------------------------------------------------
(* Option<T> *)

None == <<"None">>

Some(v) == <<"Some", v>>

IsSome(o) == o[1] = "Some"

SeqsUpTo(S, n) == UNION {[1..m -> S] : m \in 0..n}

-----------------------------------------------------------------------------
(* VlqHexDecoder, src/src/vlq.rs *)

\* first byte code that ends a VLQ group (`current < 96`, `current >= 96`)
Terminal == 96

\* the u32 value 0 of `let mut n = 0u32`, as 8 nibbles, most significant first
U32Zero == <<0, 0, 0, 0, 0, 0, 0, 0>>

\* bug: a full accumulator saturates, later nibbles are dropped
shl4_or_saturating(n, current) ==
    IF n[1] # 0 THEN n ELSE SubSeq(n, 2, 8) \o <<current % 16>>

\* n = (n << 4) | (current & 15) on a u32: the top nibble is shifted out
shl4_or(n, current) == SubSeq(n, 2, 8) \o <<current % 16>>

\* the 28 high bits of a u32 kept as nibbles, as a number
RECURSIVE nibbles_value(_, _)
nibbles_value(n, k) == IF k = 0 THEN 0 ELSE nibbles_value(n, k - 1) * 16 + n[k]

\* let sign = n & 1
sign_of(n) == n[8] % 2

\* let value = (n >> 1) as i32
value_of(n) == nibbles_value(n, 7) * 8 + (n[8] \div 2)

\* Some(if sign == 1 { -value } else { value })
vlq_result(n) == Some(IF sign_of(n) = 1 THEN 0 - value_of(n) ELSE value_of(n))

\* the while loop of next(): st = [n, offset, current]
RECURSIVE while_continuation(_, _)
while_continuation(string, st) ==
    IF st.current < Terminal /\ st.offset < Len(string)
    THEN LET n2 == shl4_or(st.n, st.current)
             off2 == st.offset + 1
         IN  IF off2 < Len(string)
             THEN while_continuation(string,
                      [n |-> n2, offset |-> off2, current |-> string[off2 + 1]])
             ELSE [n |-> n2, offset |-> off2, current |-> st.current]
    ELSE st

\* bug: the terminal byte is folded but the cursor stays on it
last_byte_no_advance(string, st) ==
    IF st.current >= Terminal /\ st.offset < Len(string)
    THEN [st EXCEPT !.n = shl4_or(st.n, st.current)]
    ELSE st

\* bug: the terminal byte is skipped without folding its nibble
last_byte_not_folded(string, st) ==
    IF st.current >= Terminal /\ st.offset < Len(string)
    THEN [st EXCEPT !.offset = st.offset + 1]
    ELSE st

\* the `if current >= 96 && self.offset < self.string.len()` block of next()
last_byte(string, st) ==
    IF st.current >= Terminal /\ st.offset < Len(string)
    THEN [st EXCEPT !.n = shl4_or(st.n, st.current), !.offset = st.offset + 1]
    ELSE st

\* VlqHexDecoder::next on decoder d: the value returned and the decoder after
next(d) ==
    IF d.offset >= Len(d.string)
    THEN [value |-> None, decoder |-> d]
    ELSE LET st0 == [n |-> U32Zero, offset |-> d.offset,
                     current |-> d.string[d.offset + 1]]
             st1 == while_continuation(d.string, st0)
             st2 == last_byte(d.string, st1)
         IN  [value |-> vlq_result(st2.n),
              decoder |-> [d EXCEPT !.offset = st2.offset]]

\* VlqHexDecoder::new
new(string) == [string |-> string, offset |-> 0]

-----------------------------------------------------------------------------
(* decode_crate, src/src/search_items.rs *)

\* b'A', the base of the type codes
BaseChar == 65

\* ItemType::Module, the fallback kind
Module == 2

\* discriminant of the last ItemType variant, TraitAlias
LastItemType == 27

\* '_' is removed and 'A'..'Z' are lower-cased by the normalisation
Underscore == 95

\* u8 subtraction `type_char - b'A'` when it does not panic: wraps modulo 2^8
wrapping_sub_u8(a, b) == (a - b) % 256

\* decode_item_type: the discriminant of the kind, Module for any other id
decode_item_type(type_id) ==
    IF type_id \in 0..LastItemType THEN type_id ELSE Module

\* the chars of a str, which is valid UTF-8, as code points
RECURSIVE chars(_)
chars(bytes) ==
    IF bytes = <<>> THEN <<>>
    ELSE LET b == bytes[1]
             n == IF b >= 240 /\ Len(bytes) >= 4 THEN 4
                  ELSE IF b >= 224 /\ b < 240 /\ Len(bytes) >= 3 THEN 3
                  ELSE IF b >= 192 /\ b < 224 /\ Len(bytes) >= 2 THEN 2
                  ELSE 1
             code == CASE n = 1 -> b
                       [] n = 2 -> (b - 192) * 64 + (bytes[2] - 128)
                       [] n = 3 -> (b - 224) * 4096 + (bytes[2] - 128) * 64
                                   + (bytes[3] - 128)
                       [] n = 4 -> (b - 240) * 262144 + (bytes[2] - 128) * 4096
                                   + (bytes[3] - 128) * 64 + (bytes[4] - 128)
         IN  <<code>> \o chars(SubSeq(bytes, n + 1, Len(bytes)))

\* the UTF-8 encoding of a char
encode_utf8(c) ==
    IF c < 128 THEN <<c>>
    ELSE IF c < 2048 THEN <<192 + (c \div 64), 128 + (c % 64)>>
    ELSE IF c < 65536
         THEN <<224 + (c \div 4096), 128 + ((c \div 64) % 64), 128 + (c % 64)>>
         ELSE <<240 + (c \div 262144), 128 + ((c \div 4096) % 64),
                128 + ((c \div 64) % 64), 128 + (c % 64)>>

\* the simple lowercase mappings of Unicode 17.0 outside ASCII: every step-th
\* char of lo..hi maps to itself plus delta, as <<lo, hi, step, delta>>
LowercaseTable ==
    {<<192, 214, 1, 32>>, <<216, 222, 1, 32>>, <<256, 302, 2, 1>>, <<306, 310, 2, 1>>,
     <<313, 327, 2, 1>>, <<330, 374, 2, 1>>, <<376, 376, 1, -121>>, <<377, 381, 2, 1>>,
     <<385, 385, 1, 210>>, <<386, 388, 2, 1>>, <<390, 390, 1, 206>>, <<391, 391, 1, 1>>,
     <<393, 394, 1, 205>>, <<395, 395, 1, 1>>, <<398, 398, 1, 79>>, <<399, 399, 1, 202>>,
     <<400, 400, 1, 203>>, <<401, 401, 1, 1>>, <<403, 403, 1, 205>>,
     <<404, 404, 1, 207>>, <<406, 406, 1, 211>>, <<407, 407, 1, 209>>,
     <<408, 408, 1, 1>>, <<412, 412, 1, 211>>, <<413, 413, 1, 213>>,
     <<415, 415, 1, 214>>, <<416, 420, 2, 1>>, <<422, 422, 1, 218>>, <<423, 423, 1, 1>>,
     <<425, 425, 1, 218>>, <<428, 428, 1, 1>>, <<430, 430, 1, 218>>, <<431, 431, 1, 1>>,
     <<433, 434, 1, 217>>, <<435, 437, 2, 1>>, <<439, 439, 1, 219>>, <<440, 440, 1, 1>>,
     <<444, 444, 1, 1>>, <<452, 452, 1, 2>>, <<453, 453, 1, 1>>, <<455, 455, 1, 2>>,
     <<456, 456, 1, 1>>, <<458, 458, 1, 2>>, <<459, 475, 2, 1>>, <<478, 494, 2, 1>>,
     <<497, 497, 1, 2>>, <<498, 500, 2, 1>>, <<502, 502, 1, -97>>, <<503, 503, 1, -56>>,
     <<504, 542, 2, 1>>, <<544, 544, 1, -130>>, <<546, 562, 2, 1>>,
     <<570, 570, 1, 10795>>, <<571, 571, 1, 1>>, <<573, 573, 1, -163>>,
     <<574, 574, 1, 10792>>, <<577, 577, 1, 1>>, <<579, 579, 1, -195>>,
     <<580, 580, 1, 69>>, <<581, 581, 1, 71>>, <<582, 590, 2, 1>>, <<880, 882, 2, 1>>,
     <<886, 886, 1, 1>>, <<895, 895, 1, 116>>, <<902, 902, 1, 38>>, <<904, 906, 1, 37>>,
     <<908, 908, 1, 64>>, <<910, 911, 1, 63>>, <<913, 929, 1, 32>>, <<931, 939, 1, 32>>,
     <<975, 975, 1, 8>>, <<984, 1006, 2, 1>>, <<1012, 1012, 1, -60>>,
     <<1015, 1015, 1, 1>>, <<1017, 1017, 1, -7>>, <<1018, 1018, 1, 1>>,
     <<1021, 1023, 1, -130>>, <<1024, 1039, 1, 80>>, <<1040, 1071, 1, 32>>,
     <<1120, 1152, 2, 1>>, <<1162, 1214, 2, 1>>, <<1216, 1216, 1, 15>>,
     <<1217, 1229, 2, 1>>, <<1232, 1326, 2, 1>>, <<1329, 1366, 1, 48>>,
     <<4256, 4293, 1, 7264>>, <<4295, 4295, 1, 7264>>, <<4301, 4301, 1, 7264>>,
     <<5024, 5103, 1, 38864>>, <<5104, 5109, 1, 8>>, <<7305, 7305, 1, 1>>,
     <<7312, 7354, 1, -3008>>, <<7357, 7359, 1, -3008>>, <<7680, 7828, 2, 1>>,
     <<7838, 7838, 1, -7615>>, <<7840, 7934, 2, 1>>, <<7944, 7951, 1, -8>>,
     <<7960, 7965, 1, -8>>, <<7976, 7983, 1, -8>>, <<7992, 7999, 1, -8>>,
     <<8008, 8013, 1, -8>>, <<8025, 8031, 2, -8>>, <<8040, 8047, 1, -8>>,
     <<8072, 8079, 1, -8>>, <<8088, 8095, 1, -8>>, <<8104, 8111, 1, -8>>,
     <<8120, 8121, 1, -8>>, <<8122, 8123, 1, -74>>, <<8124, 8124, 1, -9>>,
     <<8136, 8139, 1, -86>>, <<8140, 8140, 1, -9>>, <<8152, 8153, 1, -8>>,
     <<8154, 8155, 1, -100>>, <<8168, 8169, 1, -8>>, <<8170, 8171, 1, -112>>,
     <<8172, 8172, 1, -7>>, <<8184, 8185, 1, -128>>, <<8186, 8187, 1, -126>>,
     <<8188, 8188, 1, -9>>, <<8486, 8486, 1, -7517>>, <<8490, 8490, 1, -8383>>,
     <<8491, 8491, 1, -8262>>, <<8498, 8498, 1, 28>>, <<8544, 8559, 1, 16>>,
     <<8579, 8579, 1, 1>>, <<9398, 9423, 1, 26>>, <<11264, 11311, 1, 48>>,
     <<11360, 11360, 1, 1>>, <<11362, 11362, 1, -10743>>, <<11363, 11363, 1, -3814>>,
     <<11364, 11364, 1, -10727>>, <<11367, 11371, 2, 1>>, <<11373, 11373, 1, -10780>>,
     <<11374, 11374, 1, -10749>>, <<11375, 11375, 1, -10783>>,
     <<11376, 11376, 1, -10782>>, <<11378, 11378, 1, 1>>, <<11381, 11381, 1, 1>>,
     <<11390, 11391, 1, -10815>>, <<11392, 11490, 2, 1>>, <<11499, 11501, 2, 1>>,
     <<11506, 11506, 1, 1>>, <<42560, 42604, 2, 1>>, <<42624, 42650, 2, 1>>,
     <<42786, 42798, 2, 1>>, <<42802, 42862, 2, 1>>, <<42873, 42875, 2, 1>>,
     <<42877, 42877, 1, -35332>>, <<42878, 42886, 2, 1>>, <<42891, 42891, 1, 1>>,
     <<42893, 42893, 1, -42280>>, <<42896, 42898, 2, 1>>, <<42902, 42920, 2, 1>>,
     <<42922, 42922, 1, -42308>>, <<42923, 42923, 1, -42319>>,
     <<42924, 42924, 1, -42315>>, <<42925, 42925, 1, -42305>>,
     <<42926, 42926, 1, -42308>>, <<42928, 42928, 1, -42258>>,
     <<42929, 42929, 1, -42282>>, <<42930, 42930, 1, -42261>>, <<42931, 42931, 1, 928>>,
     <<42932, 42946, 2, 1>>, <<42948, 42948, 1, -48>>, <<42949, 42949, 1, -42307>>,
     <<42950, 42950, 1, -35384>>, <<42951, 42953, 2, 1>>, <<42955, 42955, 1, -42343>>,
     <<42956, 42970, 2, 1>>, <<42972, 42972, 1, -42561>>, <<42997, 42997, 1, 1>>,
     <<65313, 65338, 1, 32>>, <<66560, 66599, 1, 40>>, <<66736, 66771, 1, 40>>,
     <<66928, 66938, 1, 39>>, <<66940, 66954, 1, 39>>, <<66956, 66962, 1, 39>>,
     <<66964, 66965, 1, 39>>, <<68736, 68786, 1, 64>>, <<68944, 68965, 1, 32>>,
     <<71840, 71871, 1, 32>>, <<93760, 93791, 1, 32>>, <<93856, 93880, 1, 27>>,
     <<125184, 125217, 1, 34>>}

\* the ranges <<lo, hi>> of the chars with the property Cased that are not
\* Case_Ignorable
CasedTable ==
    {<<65, 90>>, <<97, 122>>, <<170, 170>>, <<181, 181>>, <<186, 186>>, <<192, 214>>,
     <<216, 246>>, <<248, 442>>, <<444, 447>>, <<452, 659>>, <<662, 687>>, <<880, 883>>,
     <<886, 887>>, <<891, 893>>, <<895, 895>>, <<902, 902>>, <<904, 906>>, <<908, 908>>,
     <<910, 929>>, <<931, 1013>>, <<1015, 1153>>, <<1162, 1327>>, <<1329, 1366>>,
     <<1376, 1416>>, <<4256, 4293>>, <<4295, 4295>>, <<4301, 4301>>, <<4304, 4346>>,
     <<4349, 4351>>, <<5024, 5109>>, <<5112, 5117>>, <<7296, 7306>>, <<7312, 7354>>,
     <<7357, 7359>>, <<7424, 7467>>, <<7531, 7543>>, <<7545, 7578>>, <<7680, 7957>>,
     <<7960, 7965>>, <<7968, 8005>>, <<8008, 8013>>, <<8016, 8023>>, <<8025, 8025>>,
     <<8027, 8027>>, <<8029, 8029>>, <<8031, 8061>>, <<8064, 8116>>, <<8118, 8124>>,
     <<8126, 8126>>, <<8130, 8132>>, <<8134, 8140>>, <<8144, 8147>>, <<8150, 8155>>,
     <<8160, 8172>>, <<8178, 8180>>, <<8182, 8188>>, <<8450, 8450>>, <<8455, 8455>>,
     <<8458, 8467>>, <<8469, 8469>>, <<8473, 8477>>, <<8484, 8484>>, <<8486, 8486>>,
     <<8488, 8488>>, <<8490, 8493>>, <<8495, 8500>>, <<8505, 8505>>, <<8508, 8511>>,
     <<8517, 8521>>, <<8526, 8526>>, <<8544, 8575>>, <<8579, 8580>>, <<9398, 9449>>,
     <<11264, 11387>>, <<11390, 11492>>, <<11499, 11502>>, <<11506, 11507>>,
     <<11520, 11557>>, <<11559, 11559>>, <<11565, 11565>>, <<42560, 42605>>,
     <<42624, 42651>>, <<42786, 42863>>, <<42865, 42887>>, <<42891, 42894>>,
     <<42896, 42972>>, <<42997, 42998>>, <<43002, 43002>>, <<43824, 43866>>,
     <<43872, 43880>>, <<43888, 43967>>, <<64256, 64262>>, <<64275, 64279>>,
     <<65313, 65338>>, <<65345, 65370>>, <<66560, 66639>>, <<66736, 66771>>,
     <<66776, 66811>>, <<66928, 66938>>, <<66940, 66954>>, <<66956, 66962>>,
     <<66964, 66965>>, <<66967, 66977>>, <<66979, 66993>>, <<66995, 67001>>,
     <<67003, 67004>>, <<68736, 68786>>, <<68800, 68850>>, <<68944, 68965>>,
     <<68976, 68997>>, <<71840, 71903>>, <<93760, 93823>>, <<93856, 93880>>,
     <<93883, 93907>>, <<119808, 119892>>, <<119894, 119964>>, <<119966, 119967>>,
     <<119970, 119970>>, <<119973, 119974>>, <<119977, 119980>>, <<119982, 119993>>,
     <<119995, 119995>>, <<119997, 120003>>, <<120005, 120069>>, <<120071, 120074>>,
     <<120077, 120084>>, <<120086, 120092>>, <<120094, 120121>>, <<120123, 120126>>,
     <<120128, 120132>>, <<120134, 120134>>, <<120138, 120144>>, <<120146, 120485>>,
     <<120488, 120512>>, <<120514, 120538>>, <<120540, 120570>>, <<120572, 120596>>,
     <<120598, 120628>>, <<120630, 120654>>, <<120656, 120686>>, <<120688, 120712>>,
     <<120714, 120744>>, <<120746, 120770>>, <<120772, 120779>>, <<122624, 122633>>,
     <<122635, 122654>>, <<122661, 122666>>, <<125184, 125251>>, <<127280, 127305>>,
     <<127312, 127337>>, <<127344, 127369>>}

\* the ranges <<lo, hi>> of the chars with the property Case_Ignorable
CaseIgnorableTable ==
    {<<39, 39>>, <<46, 46>>, <<58, 58>>, <<94, 94>>, <<96, 96>>, <<168, 168>>,
     <<173, 173>>, <<175, 175>>, <<180, 180>>, <<183, 184>>, <<688, 879>>, <<884, 885>>,
     <<890, 890>>, <<900, 901>>, <<903, 903>>, <<1155, 1161>>, <<1369, 1369>>,
     <<1375, 1375>>, <<1425, 1469>>, <<1471, 1471>>, <<1473, 1474>>, <<1476, 1477>>,
     <<1479, 1479>>, <<1524, 1524>>, <<1536, 1541>>, <<1552, 1562>>, <<1564, 1564>>,
     <<1600, 1600>>, <<1611, 1631>>, <<1648, 1648>>, <<1750, 1757>>, <<1759, 1768>>,
     <<1770, 1773>>, <<1807, 1807>>, <<1809, 1809>>, <<1840, 1866>>, <<1958, 1968>>,
     <<2027, 2037>>, <<2042, 2042>>, <<2045, 2045>>, <<2070, 2093>>, <<2137, 2139>>,
     <<2184, 2184>>, <<2192, 2193>>, <<2199, 2207>>, <<2249, 2306>>, <<2362, 2362>>,
     <<2364, 2364>>, <<2369, 2376>>, <<2381, 2381>>, <<2385, 2391>>, <<2402, 2403>>,
     <<2417, 2417>>, <<2433, 2433>>, <<2492, 2492>>, <<2497, 2500>>, <<2509, 2509>>,
     <<2530, 2531>>, <<2558, 2558>>, <<2561, 2562>>, <<2620, 2620>>, <<2625, 2626>>,
     <<2631, 2632>>, <<2635, 2637>>, <<2641, 2641>>, <<2672, 2673>>, <<2677, 2677>>,
     <<2689, 2690>>, <<2748, 2748>>, <<2753, 2757>>, <<2759, 2760>>, <<2765, 2765>>,
     <<2786, 2787>>, <<2810, 2815>>, <<2817, 2817>>, <<2876, 2876>>, <<2879, 2879>>,
     <<2881, 2884>>, <<2893, 2893>>, <<2901, 2902>>, <<2914, 2915>>, <<2946, 2946>>,
     <<3008, 3008>>, <<3021, 3021>>, <<3072, 3072>>, <<3076, 3076>>, <<3132, 3132>>,
     <<3134, 3136>>, <<3142, 3144>>, <<3146, 3149>>, <<3157, 3158>>, <<3170, 3171>>,
     <<3201, 3201>>, <<3260, 3260>>, <<3263, 3263>>, <<3270, 3270>>, <<3276, 3277>>,
     <<3298, 3299>>, <<3328, 3329>>, <<3387, 3388>>, <<3393, 3396>>, <<3405, 3405>>,
     <<3426, 3427>>, <<3457, 3457>>, <<3530, 3530>>, <<3538, 3540>>, <<3542, 3542>>,
     <<3633, 3633>>, <<3636, 3642>>, <<3654, 3662>>, <<3761, 3761>>, <<3764, 3772>>,
     <<3782, 3782>>, <<3784, 3790>>, <<3864, 3865>>, <<3893, 3893>>, <<3895, 3895>>,
     <<3897, 3897>>, <<3953, 3966>>, <<3968, 3972>>, <<3974, 3975>>, <<3981, 3991>>,
     <<3993, 4028>>, <<4038, 4038>>, <<4141, 4144>>, <<4146, 4151>>, <<4153, 4154>>,
     <<4157, 4158>>, <<4184, 4185>>, <<4190, 4192>>, <<4209, 4212>>, <<4226, 4226>>,
     <<4229, 4230>>, <<4237, 4237>>, <<4253, 4253>>, <<4348, 4348>>, <<4957, 4959>>,
     <<5906, 5908>>, <<5938, 5939>>, <<5970, 5971>>, <<6002, 6003>>, <<6068, 6069>>,
     <<6071, 6077>>, <<6086, 6086>>, <<6089, 6099>>, <<6103, 6103>>, <<6109, 6109>>,
     <<6155, 6159>>, <<6211, 6211>>, <<6277, 6278>>, <<6313, 6313>>, <<6432, 6434>>,
     <<6439, 6440>>, <<6450, 6450>>, <<6457, 6459>>, <<6679, 6680>>, <<6683, 6683>>,
     <<6742, 6742>>, <<6744, 6750>>, <<6752, 6752>>, <<6754, 6754>>, <<6757, 6764>>,
     <<6771, 6780>>, <<6783, 6783>>, <<6823, 6823>>, <<6832, 6877>>, <<6880, 6891>>,
     <<6912, 6915>>, <<6964, 6964>>, <<6966, 6970>>, <<6972, 6972>>, <<6978, 6978>>,
     <<7019, 7027>>, <<7040, 7041>>, <<7074, 7077>>, <<7080, 7081>>, <<7083, 7085>>,
     <<7142, 7142>>, <<7144, 7145>>, <<7149, 7149>>, <<7151, 7153>>, <<7212, 7219>>,
     <<7222, 7223>>, <<7288, 7293>>, <<7376, 7378>>, <<7380, 7392>>, <<7394, 7400>>,
     <<7405, 7405>>, <<7412, 7412>>, <<7416, 7417>>, <<7468, 7530>>, <<7544, 7544>>,
     <<7579, 7679>>, <<8125, 8125>>, <<8127, 8129>>, <<8141, 8143>>, <<8157, 8159>>,
     <<8173, 8175>>, <<8189, 8190>>, <<8203, 8207>>, <<8216, 8217>>, <<8228, 8228>>,
     <<8231, 8231>>, <<8234, 8238>>, <<8288, 8292>>, <<8294, 8303>>, <<8305, 8305>>,
     <<8319, 8319>>, <<8336, 8348>>, <<8400, 8432>>, <<11388, 11389>>, <<11503, 11505>>,
     <<11631, 11631>>, <<11647, 11647>>, <<11744, 11775>>, <<11823, 11823>>,
     <<12293, 12293>>, <<12330, 12333>>, <<12337, 12341>>, <<12347, 12347>>,
     <<12441, 12446>>, <<12540, 12542>>, <<40981, 40981>>, <<42232, 42237>>,
     <<42508, 42508>>, <<42607, 42610>>, <<42612, 42621>>, <<42623, 42623>>,
     <<42652, 42655>>, <<42736, 42737>>, <<42752, 42785>>, <<42864, 42864>>,
     <<42888, 42890>>, <<42993, 42996>>, <<43000, 43001>>, <<43010, 43010>>,
     <<43014, 43014>>, <<43019, 43019>>, <<43045, 43046>>, <<43052, 43052>>,
     <<43204, 43205>>, <<43232, 43249>>, <<43263, 43263>>, <<43302, 43309>>,
     <<43335, 43345>>, <<43392, 43394>>, <<43443, 43443>>, <<43446, 43449>>,
     <<43452, 43453>>, <<43471, 43471>>, <<43493, 43494>>, <<43561, 43566>>,
     <<43569, 43570>>, <<43573, 43574>>, <<43587, 43587>>, <<43596, 43596>>,
     <<43632, 43632>>, <<43644, 43644>>, <<43696, 43696>>, <<43698, 43700>>,
     <<43703, 43704>>, <<43710, 43711>>, <<43713, 43713>>, <<43741, 43741>>,
     <<43756, 43757>>, <<43763, 43764>>, <<43766, 43766>>, <<43867, 43871>>,
     <<43881, 43883>>, <<44005, 44005>>, <<44008, 44008>>, <<44013, 44013>>,
     <<64286, 64286>>, <<64434, 64450>>, <<65024, 65039>>, <<65043, 65043>>,
     <<65056, 65071>>, <<65106, 65106>>, <<65109, 65109>>, <<65279, 65279>>,
     <<65287, 65287>>, <<65294, 65294>>, <<65306, 65306>>, <<65342, 65342>>,
     <<65344, 65344>>, <<65392, 65392>>, <<65438, 65439>>, <<65507, 65507>>,
     <<65529, 65531>>, <<66045, 66045>>, <<66272, 66272>>, <<66422, 66426>>,
     <<67456, 67461>>, <<67463, 67504>>, <<67506, 67514>>, <<68097, 68099>>,
     <<68101, 68102>>, <<68108, 68111>>, <<68152, 68154>>, <<68159, 68159>>,
     <<68325, 68326>>, <<68900, 68903>>, <<68942, 68942>>, <<68969, 68973>>,
     <<68975, 68975>>, <<69291, 69292>>, <<69317, 69317>>, <<69370, 69375>>,
     <<69446, 69456>>, <<69506, 69509>>, <<69633, 69633>>, <<69688, 69702>>,
     <<69744, 69744>>, <<69747, 69748>>, <<69759, 69761>>, <<69811, 69814>>,
     <<69817, 69818>>, <<69821, 69821>>, <<69826, 69826>>, <<69837, 69837>>,
     <<69888, 69890>>, <<69927, 69931>>, <<69933, 69940>>, <<70003, 70003>>,
     <<70016, 70017>>, <<70070, 70078>>, <<70089, 70092>>, <<70095, 70095>>,
     <<70191, 70193>>, <<70196, 70196>>, <<70198, 70199>>, <<70206, 70206>>,
     <<70209, 70209>>, <<70367, 70367>>, <<70371, 70378>>, <<70400, 70401>>,
     <<70459, 70460>>, <<70464, 70464>>, <<70502, 70508>>, <<70512, 70516>>,
     <<70587, 70592>>, <<70606, 70606>>, <<70608, 70608>>, <<70610, 70610>>,
     <<70625, 70626>>, <<70712, 70719>>, <<70722, 70724>>, <<70726, 70726>>,
     <<70750, 70750>>, <<70835, 70840>>, <<70842, 70842>>, <<70847, 70848>>,
     <<70850, 70851>>, <<71090, 71093>>, <<71100, 71101>>, <<71103, 71104>>,
     <<71132, 71133>>, <<71219, 71226>>, <<71229, 71229>>, <<71231, 71232>>,
     <<71339, 71339>>, <<71341, 71341>>, <<71344, 71349>>, <<71351, 71351>>,
     <<71453, 71453>>, <<71455, 71455>>, <<71458, 71461>>, <<71463, 71467>>,
     <<71727, 71735>>, <<71737, 71738>>, <<71995, 71996>>, <<71998, 71998>>,
     <<72003, 72003>>, <<72148, 72151>>, <<72154, 72155>>, <<72160, 72160>>,
     <<72193, 72202>>, <<72243, 72248>>, <<72251, 72254>>, <<72263, 72263>>,
     <<72273, 72278>>, <<72281, 72283>>, <<72330, 72342>>, <<72344, 72345>>,
     <<72544, 72544>>, <<72546, 72548>>, <<72550, 72550>>, <<72752, 72758>>,
     <<72760, 72765>>, <<72767, 72767>>, <<72850, 72871>>, <<72874, 72880>>,
     <<72882, 72883>>, <<72885, 72886>>, <<73009, 73014>>, <<73018, 73018>>,
     <<73020, 73021>>, <<73023, 73029>>, <<73031, 73031>>, <<73104, 73105>>,
     <<73109, 73109>>, <<73111, 73111>>, <<73177, 73177>>, <<73459, 73460>>,
     <<73472, 73473>>, <<73526, 73530>>, <<73536, 73536>>, <<73538, 73538>>,
     <<73562, 73562>>, <<78896, 78912>>, <<78919, 78933>>, <<90398, 90409>>,
     <<90413, 90415>>, <<92912, 92916>>, <<92976, 92982>>, <<92992, 92995>>,
     <<93504, 93506>>, <<93547, 93548>>, <<94031, 94031>>, <<94095, 94111>>,
     <<94176, 94177>>, <<94179, 94180>>, <<94194, 94195>>, <<110576, 110579>>,
     <<110581, 110587>>, <<110589, 110590>>, <<113821, 113822>>, <<113824, 113827>>,
     <<118528, 118573>>, <<118576, 118598>>, <<119143, 119145>>, <<119155, 119170>>,
     <<119173, 119179>>, <<119210, 119213>>, <<119362, 119364>>, <<121344, 121398>>,
     <<121403, 121452>>, <<121461, 121461>>, <<121476, 121476>>, <<121499, 121503>>,
     <<121505, 121519>>, <<122880, 122886>>, <<122888, 122904>>, <<122907, 122913>>,
     <<122915, 122916>>, <<122918, 122922>>, <<122928, 122989>>, <<123023, 123023>>,
     <<123184, 123197>>, <<123566, 123566>>, <<123628, 123631>>, <<124139, 124143>>,
     <<124398, 124399>>, <<124643, 124643>>, <<124646, 124646>>, <<124654, 124655>>,
     <<124661, 124661>>, <<124671, 124671>>, <<125136, 125142>>, <<125252, 125259>>,
     <<127995, 127999>>, <<917505, 917505>>, <<917536, 917631>>, <<917760, 917999>>}

\* 'Σ', which str::to_lowercase maps by its context
CapitalSigma == 931

\* 'σ'
SmallSigma == 963

\* 'ς'
FinalSigma == 962

\* 'İ', the one char whose lowercase is two chars
CapitalIDotted == 304

\* "i̇": 'i' and the combining dot above
SmallIDotted == <<105, 775>>

Case_Ignorable(c) == \E r \in CaseIgnorableTable : r[1] <= c /\ c <= r[2]

\* Cased, for a char that is not Case_Ignorable
Cased(c) == \E r \in CasedTable : r[1] <= c /\ c <= r[2]

\* char::to_lowercase (conversions::to_lower): the chars c maps to
to_lower(c) ==
    IF c < 128 THEN (IF c >= 65 /\ c <= 90 THEN <<c + 32>> ELSE <<c>>)
    ELSE IF c = CapitalIDotted THEN SmallIDotted
    ELSE LET hits == {r \in LowercaseTable :
                         r[1] <= c /\ c <= r[2] /\ (c - r[1]) % r[3] = 0}
         IN  IF hits = {} THEN <<c>> ELSE <<c + (CHOOSE r \in hits : TRUE)[4]>>

\* case_ignorable_then_cased(from[..i].chars().rev()), k the char before
RECURSIVE cased_before(_, _)
cased_before(cs, k) ==
    IF k < 1 THEN FALSE
    ELSE IF Case_Ignorable(cs[k]) THEN cased_before(cs, k - 1) ELSE Cased(cs[k])

\* case_ignorable_then_cased(from[i + 2..].chars()), k the char after
RECURSIVE cased_after(_, _)
cased_after(cs, k) ==
    IF k > Len(cs) THEN FALSE
    ELSE IF Case_Ignorable(cs[k]) THEN cased_after(cs, k + 1) ELSE Cased(cs[k])

\* map_uppercase_sigma: ς at the end of a word, σ elsewhere
map_uppercase_sigma(cs, k) ==
    IF cased_before(cs, k - 1) /\ ~cased_after(cs, k + 1)
    THEN <<FinalSigma>> ELSE <<SmallSigma>>

\* the UTF-8 bytes of the lowercase of the chars k.. of cs
RECURSIVE lowercase_from(_, _)
lowercase_from(cs, k) ==
    IF k > Len(cs) THEN <<>>
    ELSE LET lower == IF cs[k] = CapitalSigma THEN map_uppercase_sigma(cs, k)
                      ELSE to_lower(cs[k])
         IN  (IF Len(lower) = 2 THEN encode_utf8(lower[1]) \o encode_utf8(lower[2])
              ELSE encode_utf8(lower[1]))
             \o lowercase_from(cs, k + 1)

\* str::to_lowercase
to_lowercase(text) == lowercase_from(chars(text), 1)

NotUnderscore(c) == c # Underscore

\* name.to_lowercase().replace('_', "")
normalize(name) == SelectSeq(to_lowercase(name), NotUnderscore)

\* the keys of a HashMap collected from a sequence of (key, value) pairs
map_keys(pairs) == {pairs[k][1] : k \in 1..Len(pairs)}

\* HashMap::get on a map collected from a sequence of pairs: a later pair
\* with the same key replaces an earlier one
map_get(pairs, key) ==
    IF key \in map_keys(pairs)
    THEN LET last == CHOOSE k \in 1..Len(pairs) :
                        /\ pairs[k][1] = key
                        /\ \A j \in (k + 1)..Len(pairs) : pairs[j][1] # key
         IN  Some(pairs[last][2])
    ELSE None

\* paths_map: qp.index -> qp.path
paths_map(cd) == [k \in 1..Len(cd.paths) |-> <<cd.paths[k].index, cd.paths[k].path>>]

\* reexports_map: r.item_index -> r.path_index
reexports_map(cd) ==
    [k \in 1..Len(cd.reexports) |-> <<cd.reexports[k].item_index, cd.reexports[k].path_index>>]

\* param_types_map: pt.item_index -> pt.types
param_types_map(cd) ==
    [k \in 1..Len(cd.param_types) |-> <<cd.param_types[k].item_index, cd.param_types[k].types>>]

\* impl_disamb_map: id.item_index -> id.disambiguator
impl_disamb_map(cd) ==
    [k \in 1..Len(cd.impl_disambiguators) |->
        <<cd.impl_disambiguators[k].item_index, cd.impl_disambiguators[k].disambiguator>>]

\* let bit_index = i + 1
bit_index_of(pos) == pos + 1

\* name: the raw name, or last_name when the raw name is empty
resolve_name(names, pos, last) ==
    IF names[pos + 1] = <<>> THEN last ELSE names[pos + 1]

\* path: the overlay entry of this position, or last_path
resolve_path(cd, pos, last) ==
    LET e == map_get(paths_map(cd), pos) IN IF IsSome(e) THEN e[2] ELSE last

\* bug: a re-export whose path is not found gives the empty path
resolve_exact_path_no_fallback(cd, pos, path) ==
    LET r == map_get(reexports_map(cd), pos)
    IN  IF IsSome(r)
        THEN LET e == map_get(paths_map(cd), r[2]) IN IF IsSome(e) THEN e[2] ELSE ""
        ELSE path

\* exact_path: the path the re-export entry leads to, or path
resolve_exact_path(cd, pos, path) ==
    LET r == map_get(reexports_map(cd), pos)
    IN  IF IsSome(r)
        THEN LET e == map_get(paths_map(cd), r[2]) IN IF IsSome(e) THEN e[2] ELSE path
        ELSE path

\* param_types: the overlay entry, or the empty list
resolve_param_types(cd, pos) ==
    LET e == map_get(param_types_map(cd), pos) IN IF IsSome(e) THEN e[2] ELSE <<>>

\* impl_disambiguator: the overlay entry, if any
resolve_impl_disambiguator(cd, pos) == map_get(impl_disamb_map(cd), pos)

\* bug: the 1-based value is kept as it is
resolve_parent_index_one_based(v) ==
    IF IsSome(v) /\ v[2] > 0 THEN Some(v[2]) ELSE None

\* parent_index from the value next() returned
resolve_parent_index(v) ==
    IF IsSome(v) /\ v[2] > 0 THEN Some(v[2] - 1) ELSE None

\* bug: the chain keeps the raw name, so two empty names in a row lose it
update_last_name_raw(name, raw) == raw

\* last_name = name
update_last_name(name, raw) == name

\* bug: the chain keeps the exact path of a re-exported item
update_last_path_exact(path, exact_path) == exact_path

\* last_path = path
update_last_path(path, exact_path) == path

\* the SearchItem pushed at position pos, given the value next() returned
search_item(name_, cd, pos, lname, lpath, v) ==
    LET type_id == wrapping_sub_u8(cd.types[pos + 1], BaseChar)
        name == resolve_name(cd.names, pos, lname)
        path == resolve_path(cd, pos, lpath)
    IN  [crate_name |-> name_,
         item_type |-> decode_item_type(type_id),
         name |-> name,
         normalized_name |-> normalize(name),
         path |-> path,
         exact_path |-> resolve_exact_path(cd, pos, path),
         id |-> pos,
         param_types |-> resolve_param_types(cd, pos),
         impl_disambiguator |-> resolve_impl_disambiguator(cd, pos),
         bit_index |-> bit_index_of(pos),
         parent_index |-> resolve_parent_index(v)]

\* `type_char - b'A'` overflows and the build checks it
sub_overflows(cd, pos) == cd.types[pos + 1] < BaseChar /\ overflow_checks

\* `crate_data.names[i]` is out of bounds
names_out_of_bounds(cd, pos) == pos >= Len(cd.names)

\* one iteration of the loop that pushes an item
Iterate ==
    /\ pc = "loop"
    /\ i < Len(crate_data.types)
    /\ ~sub_overflows(crate_data, i)
    /\ ~names_out_of_bounds(crate_data, i)
    /\ LET r == next(decoder)
           item == search_item(crate_name, crate_data, i, last_name, last_path, r.value)
       IN  /\ items' = Append(items, item)
           /\ last_name' = update_last_name(item.name, crate_data.names[i + 1])
           /\ last_path' = update_last_path(item.path, item.exact_path)
           /\ decoder' = r.decoder
           /\ calls' = Append(calls, [from |-> decoder.offset,
                                      to |-> r.decoder.offset,
                                      value |-> r.value])
    /\ i' = i + 1
    /\ UNCHANGED <<crate_name, crate_data, overflow_checks, pc, result>>
    /\ UNCHANGED <<scan_vars, parse_vars>>

\* the iteration panics at `type_char - b'A'` (attempt to subtract with overflow)
SubOverflowPanic ==
    /\ pc = "loop"
    /\ i < Len(crate_data.types)
    /\ sub_overflows(crate_data, i)
    /\ pc' = "panic"
    /\ UNCHANGED <<crate_name, crate_data, overflow_checks, i, items, last_name,
                   last_path, decoder, calls, result>>
    /\ UNCHANGED <<scan_vars, parse_vars>>

\* the iteration panics at `crate_data.names[i]` (index out of bounds)
NamesIndexPanic ==
    /\ pc = "loop"
    /\ i < Len(crate_data.types)
    /\ ~sub_overflows(crate_data, i)
    /\ names_out_of_bounds(crate_data, i)
    /\ pc' = "panic"
    /\ UNCHANGED <<crate_name, crate_data, overflow_checks, i, items, last_name,
                   last_path, decoder, calls, result>>
    /\ UNCHANGED <<scan_vars, parse_vars>>

\* the loop is over: decode_crate returns items
Return ==
    /\ pc = "loop"
    /\ i >= Len(crate_data.types)
    /\ pc' = "done"
    /\ result' = Some(items)
    /\ UNCHANGED <<crate_name, crate_data, overflow_checks, i, items, last_name,
                   last_path, decoder, calls>>
    /\ UNCHANGED <<scan_vars, parse_vars>>

-----------------------------------------------------------------------------
(* The inputs decode_crate is run on *)

\* type codes: below 'A', 'C' (Module), 'F' (Struct), above the 28 kinds
TypeChars == {48, 67, 70, 122}

\* names: "", "FÉΣ_", "b"
NameSet == {<<>>, <<70, 195, 137, 206, 163, 95>>, <<98>>}

PathSet == {"p", "q"}

\* stream bytes: 'B' is a continuation byte, 'a'..'d' are terminal bytes
StreamChars == {66, 97, 98, 99, 100}

\* a parent descriptor; decode_crate reads none of its fields
PathItem == [ty |-> 5, name |-> <<66, 97, 114>>, path_index |-> None,
             exact_path_index |-> None, unbox_flag |-> None]

CrateData(t, n, q, p, r, s) ==
    [types |-> t, names |-> n, paths |-> q, parent_items |-> p, reexports |-> r,
     i |-> s, f |-> <<>>, desc |-> <<>>,
     param_types |-> <<[item_index |-> 1, types |-> <<"T", "U">>]>>,
     impl_disambiguators |-> <<[item_index |-> 0, disambiguator |-> "impl-Debug-for-Bar"]>>,
     c |-> <<>>, e |-> <<>>, aliases |-> None]

\* names of a crate of n items in which every second name is compressed
DefaultNames(n) == [k \in 1..n |-> IF k % 2 = 1 THEN <<98>> ELSE <<>>]

DefaultTypes(n) == [k \in 1..n |-> 70]

\* crate_data is a crate that varies types and names, the two lengths independently
NameCrate ==
    \E t \in SeqsUpTo(TypeChars, MaxItems), n \in SeqsUpTo(NameSet, MaxItems) :
        crate_data = CrateData(t, n, <<>>, <<>>, <<>>, <<>>)

\* crate_data is a crate that varies the paths and reexports overlays
PathCrate ==
    \E q \in SeqsUpTo([index : 0..2, path : PathSet], MaxPaths),
       r \in SeqsUpTo([item_index : 0..1, path_index : 0..2], MaxReexports) :
        crate_data = CrateData(DefaultTypes(MaxItems), DefaultNames(MaxItems), q, <<>>, r, <<>>)

\* crate_data is a crate that varies the parent-index stream and the parent descriptors
ParentCrate ==
    \E p \in 0..MaxParents, s \in SeqsUpTo(StreamChars, MaxStream) :
        crate_data = CrateData(DefaultTypes(MaxItems), DefaultNames(MaxItems), <<>>,
                               [k \in 1..p |-> PathItem], <<>>, s)

\* scan::execute is not running
ScanIdle ==
    /\ symbol = <<>>
    /\ content = <<>>
    /\ payload = None
    /\ parsed = None
    /\ json_string = None
    /\ crate_entries = None
    /\ entry = 0
    /\ all_items = <<>>
    /\ report = None

\* the schema parser is not running
ParseIdle ==
    /\ json = None
    /\ parse_result = None

\* some type code is below 'A', so that `type_char - b'A'` overflows
has_low_type(cd) == \E k \in 1..Len(cd.types) : cd.types[k] < BaseChar

Init ==
    /\ crate_name = "test_crate"
    /\ (NameCrate \/ PathCrate \/ ParentCrate)
    /\ overflow_checks \in BOOLEAN
    /\ pc = "loop"
    /\ i = 0
    /\ items = <<>>
    /\ last_name = <<>>
    /\ last_path = ""
    /\ decoder = new(crate_data.i)
    /\ calls = <<>>
    /\ result = None
    /\ ScanIdle
    /\ ParseIdle

Next == Iterate \/ SubOverflowPanic \/ NamesIndexPanic \/ Return

Spec == Init /\ [][Next]_vars

-----------------------------------------------------------------------------
(* The bare decoder: next() called repeatedly on one string *)

EmptyCrate == CrateData(<<>>, <<>>, <<>>, <<>>, <<>>, <<>>)

InitVlq ==
    /\ crate_name = ""
    /\ crate_data = EmptyCrate
    /\ overflow_checks = TRUE
    /\ pc = "vlq"
    /\ i = 0
    /\ items = <<>>
    /\ last_name = <<>>
    /\ last_path = ""
    /\ \E s \in SeqsUpTo(StreamChars, MaxStream) : decoder = new(s)
    /\ calls = <<>>
    /\ result = None
    /\ ScanIdle
    /\ ParseIdle

\* one call of decoder.next()
CallNext ==
    /\ pc = "vlq"
    /\ Len(calls) < Len(decoder.string) + ExtraCalls
    /\ LET r == next(decoder)
       IN  /\ decoder' = r.decoder
           /\ calls' = Append(calls, [from |-> decoder.offset,
                                      to |-> r.decoder.offset,
                                      value |-> r.value])
    /\ UNCHANGED <<crate_name, crate_data, overflow_checks, pc, i, items, last_name,
                   last_path, result>>
    /\ UNCHANGED <<scan_vars, parse_vars>>

NextVlq == CallNext

SpecVlq == InitVlq /\ [][NextVlq]_vars

\* bytes of the long runs: '@' and 'O' continue a group with the nibbles 0
\* and 15, 'o' ends one with the nibble 15
LongChars == {64, 79, 111}

InitVlqLong ==
    /\ crate_name = ""
    /\ crate_data = EmptyCrate
    /\ overflow_checks = TRUE
    /\ pc = "vlq"
    /\ i = 0
    /\ items = <<>>
    /\ last_name = <<>>
    /\ last_path = ""
    /\ \E s \in SeqsUpTo(LongChars, MaxLong) : decoder = new(s)
    /\ calls = <<>>
    /\ result = None
    /\ ScanIdle
    /\ ParseIdle

SpecVlqLong == InitVlqLong /\ [][NextVlq]_vars

-----------------------------------------------------------------------------
(* extract_json_string, src/src/search_index.rs *)

\* "JSON.parse('"
start_pattern == <<74, 83, 79, 78, 46, 112, 97, 114, 115, 101, 40, 39>>

\* "')"
end_pattern == <<39, 41>>

\* r"\'"
escaped_quote == <<92, 39>>

\* "'"
quote == <<39>>

\* pat occurs in text at 0-based offset off
matches_at(text, pat, off) ==
    /\ off + Len(pat) <= Len(text)
    /\ \A k \in 1..Len(pat) : text[off + k] = pat[k]

\* str::find: the offset of the first occurrence of pat in text
find(text, pat) ==
    LET hits == {off \in 0..Len(text) : matches_at(text, pat, off)}
    IN  IF hits = {} THEN None
        ELSE Some(CHOOSE off \in hits : \A other \in hits : off <= other)

\* &text[from..]
slice_from(text, from) == SubSeq(text, from + 1, Len(text))

\* &text[from..to]
slice(text, from, to) == SubSeq(text, from + 1, to)

\* str::replace: every occurrence of pat, left to right and not overlapping,
\* becomes by
RECURSIVE replace(_, _, _)
replace(text, pat, by) ==
    IF text = <<>> THEN <<>>
    ELSE IF matches_at(text, pat, 0)
         THEN by \o replace(slice_from(text, Len(pat)), pat, by)
         ELSE <<text[1]>> \o replace(slice_from(text, 1), pat, by)

\* content.find(start_pattern) + start_pattern.len(), None where expect panics
find_start(text) ==
    LET at == find(text, start_pattern)
    IN  IF IsSome(at) THEN Some(at[2] + Len(start_pattern)) ELSE None

\* bug: a literal without a closing delimiter runs to the end of the file
find_end_or_rest(text, start) ==
    LET at == find(slice_from(text, start), end_pattern)
    IN  IF IsSome(at) THEN Some(at[2] + start) ELSE Some(Len(text))

\* content[start..].find(end_pattern) + start, None where expect panics
find_end(text, start) ==
    LET at == find(slice_from(text, start), end_pattern)
    IN  IF IsSome(at) THEN Some(at[2] + start) ELSE None

\* extract_json_string: the literal, or None where one of the expects panics
extract_json_string(text) ==
    LET start == find_start(text)
    IN  IF ~IsSome(start) THEN None
        ELSE LET end == find_end(text, start[2])
             IN  IF ~IsSome(end) THEN None
                 ELSE Some(replace(slice(text, start[2], end[2]), escaped_quote, quote))

-----------------------------------------------------------------------------
(* scan::execute, src/src/commands/scan.rs *)

\* symbol.to_lowercase(), item.name.to_lowercase()
lowercase(text) == to_lowercase(text)

\* str::contains
contains(text, pat) == \E off \in 0..Len(text) : matches_at(text, pat, off)

\* the items whose lower-cased name contains the lower-cased symbol
search(all, sym) ==
    SelectSeq(all, LAMBDA item : contains(lowercase(item.name), lowercase(sym)))

\* execute returns an error before it parses anything: no Cargo.toml, cargo doc
\* failed, or search-index.js could not be read
EnvironmentError ==
    /\ pc = "start"
    /\ pc' = "err"
    /\ UNCHANGED <<crate_name, crate_data, overflow_checks, i, items, last_name,
                   last_path, decoder, calls, result, scan_vars, parse_vars>>

\* std::fs::read_to_string(search_index_path) succeeds
ReadIndex ==
    /\ pc = "start"
    /\ pc' = "read"
    /\ UNCHANGED <<crate_name, crate_data, overflow_checks, i, items, last_name,
                   last_path, decoder, calls, result, scan_vars, parse_vars>>

\* let json_string = extract_json_string(&content)
Extract ==
    /\ pc = "read"
    /\ IsSome(extract_json_string(content))
    /\ json_string' = extract_json_string(content)
    /\ pc' = "parse"
    /\ UNCHANGED <<crate_name, crate_data, overflow_checks, i, items, last_name,
                   last_path, decoder, calls, result, parse_vars>>
    /\ UNCHANGED <<symbol, content, payload, parsed, crate_entries, entry, all_items,
                   report>>

\* extract_json_string panics: "Could not find JSON.parse('" or
\* "Could not find closing ')"
ExtractPanic ==
    /\ pc = "read"
    /\ ~IsSome(extract_json_string(content))
    /\ pc' = "panic"
    /\ UNCHANGED <<crate_name, crate_data, overflow_checks, i, items, last_name,
                   last_path, decoder, calls, result, scan_vars, parse_vars>>

\* let crate_entries = parse_search_index(&json_string)
Parse ==
    /\ pc = "parse"
    /\ IsSome(parsed)
    /\ crate_entries' = parsed
    /\ pc' = "entries"
    /\ UNCHANGED <<crate_name, crate_data, overflow_checks, i, items, last_name,
                   last_path, decoder, calls, result, parse_vars>>
    /\ UNCHANGED <<symbol, content, payload, parsed, json_string, entry, all_items,
                   report>>

\* parse_search_index panics: "Failed to parse JSON"
ParsePanic ==
    /\ pc = "parse"
    /\ ~IsSome(parsed)
    /\ pc' = "panic"
    /\ UNCHANGED <<crate_name, crate_data, overflow_checks, i, items, last_name,
                   last_path, decoder, calls, result, scan_vars, parse_vars>>

\* bug: the reuse chains and the cursor of the previous crate are kept
StartCrateKeepingState ==
    /\ pc = "entries"
    /\ entry < Len(crate_entries[2])
    /\ crate_name' = crate_entries[2][entry + 1].name
    /\ crate_data' = crate_entries[2][entry + 1].data
    /\ i' = 0
    /\ items' = <<>>
    /\ decoder' = [decoder EXCEPT !.string = crate_entries[2][entry + 1].data.i]
    /\ calls' = <<>>
    /\ result' = None
    /\ pc' = "loop"
    /\ UNCHANGED <<overflow_checks, last_name, last_path, scan_vars, parse_vars>>

\* decode_crate(&entry.name, &entry.data) is entered for the next entry
StartCrate ==
    /\ pc = "entries"
    /\ entry < Len(crate_entries[2])
    /\ crate_name' = crate_entries[2][entry + 1].name
    /\ crate_data' = crate_entries[2][entry + 1].data
    /\ i' = 0
    /\ items' = <<>>
    /\ last_name' = <<>>
    /\ last_path' = ""
    /\ decoder' = new(crate_entries[2][entry + 1].data.i)
    /\ calls' = <<>>
    /\ result' = None
    /\ pc' = "loop"
    /\ UNCHANGED <<overflow_checks, scan_vars, parse_vars>>

\* all_items.extend(items)
Extend ==
    /\ pc = "done"
    /\ IsSome(crate_entries)
    /\ all_items' = all_items \o result[2]
    /\ entry' = entry + 1
    /\ pc' = "entries"
    /\ UNCHANGED <<crate_name, crate_data, overflow_checks, i, items, last_name,
                   last_path, decoder, calls, result, parse_vars>>
    /\ UNCHANGED <<symbol, content, payload, parsed, json_string, crate_entries, report>>

\* every entry is decoded: the results are filtered and printed, execute
\* returns Ok(())
Report ==
    /\ pc = "entries"
    /\ entry >= Len(crate_entries[2])
    /\ report' = Some(Len(search(all_items, symbol)))
    /\ pc' = "ok"
    /\ UNCHANGED <<crate_name, crate_data, overflow_checks, i, items, last_name,
                   last_path, decoder, calls, result, parse_vars>>
    /\ UNCHANGED <<symbol, content, payload, parsed, json_string, crate_entries, entry,
                   all_items>>

-----------------------------------------------------------------------------
(* The files scan::execute is run on *)

\* payload bytes: ' ) \ a
PayloadChars == {39, 41, 92, 97}

\* what the wrapper does to a payload: every ' becomes \'
escape(text) == replace(text, quote, escaped_quote)

\* text before the opening delimiter: "", "v"
Prefixes == {<<>>, <<118>>}

\* text after the closing delimiter: "", ")", "')"
Suffixes == {<<>>, <<41>>, <<39, 41>>}

\* what a raw file starts with: nothing, the opening delimiter, the opening
\* delimiter without its quote
Heads == {<<>>, start_pattern, SubSeq(start_pattern, 1, Len(start_pattern) - 1)}

\* names of the crate entries, by position in the file
CrateNames == <<"alpha", "beta", "gamma", "delta">>

\* the crate the parser yields for the files that vary the wrapper
DefaultCrate == CrateData(DefaultTypes(1), DefaultNames(1), <<>>, <<>>, <<>>, <<>>)

\* the well-formed file the crate entries are read from
DefaultContent == start_pattern \o <<91, 93>> \o end_pattern

\* crates of two items, the first or the second name compressed, with or
\* without a path and a parent stream; a crate with a type code below 'A'; a
\* crate without a name for its second item
ScanCrates ==
    {CrateData(<<67, 70>>, n, q, <<PathItem, PathItem>>, <<>>, s) :
        n \in {<<<<>>, <<98>>>>, <<<<98>>, <<>>>>},
        q \in {<<>>, <<[index |-> 0, path |-> "p"]>>},
        s \in {<<>>, <<66, 100>>}}
    \cup {CrateData(<<48>>, <<<<98>>>>, <<>>, <<>>, <<>>, <<>>),
          CrateData(<<70, 70>>, <<<<98>>>>, <<>>, <<>>, <<>>, <<>>)}

\* a file written from a payload by the wrapper
WrappedFile ==
    \E pre \in Prefixes, p \in SeqsUpTo(PayloadChars, MaxPayload), suf \in Suffixes :
        /\ content = pre \o start_pattern \o escape(p) \o end_pattern \o suf
        /\ payload = Some(p)
        /\ parsed \in {None, Some(<<[name |-> CrateNames[1], data |-> DefaultCrate]>>)}

\* any other file
RawFile ==
    \E head \in Heads, body \in SeqsUpTo(PayloadChars, MaxPayload) :
        /\ content = head \o body
        /\ payload = None
        /\ parsed \in {None, Some(<<[name |-> CrateNames[1], data |-> DefaultCrate]>>)}

\* a well-formed file of up to MaxCrates crate entries
CratesFile ==
    \E es \in SeqsUpTo(ScanCrates, MaxCrates) :
        /\ content = DefaultContent
        /\ payload = None
        /\ parsed = Some([k \in 1..Len(es) |-> [name |-> CrateNames[k], data |-> es[k]]])

InitScan ==
    /\ crate_name = ""
    /\ crate_data = EmptyCrate
    /\ overflow_checks \in BOOLEAN
    /\ pc = "start"
    /\ i = 0
    /\ items = <<>>
    /\ last_name = <<>>
    /\ last_path = ""
    /\ decoder = new(<<>>)
    /\ calls = <<>>
    /\ result = None
    /\ symbol \in {<<66>>, <<122>>}
    /\ (WrappedFile \/ RawFile \/ CratesFile)
    /\ json_string = None
    /\ crate_entries = None
    /\ entry = 0
    /\ all_items = <<>>
    /\ report = None
    /\ ParseIdle

NextScan ==
    \/ EnvironmentError
    \/ ReadIndex
    \/ Extract
    \/ ExtractPanic
    \/ Parse
    \/ ParsePanic
    \/ StartCrate
    \/ Iterate
    \/ SubOverflowPanic
    \/ NamesIndexPanic
    \/ Return
    \/ Extend
    \/ Report

SpecScan == InitScan /\ [][NextScan]_vars

-----------------------------------------------------------------------------
(* parse_search_index and the derived deserializers, src/src/search_index.rs *)

\* JSON values; strings are byte sequences, object keys are strings, a number
\* is the sequence of its decimal digits, without leading zeros
JNull == <<"null">>

\* a non-negative integer
JNum(digits) == <<"num", digits>>

\* a negative integer, -digits
JNeg(digits) == <<"neg", digits>>

JStr(bytes) == <<"str", bytes>>

JArr(elems) == <<"arr", elems>>

JObj(members) == <<"obj", members>>

\* Result<T, serde_json::Error>
Ok(v) == <<"Ok", v>>

Err == <<"Err">>

IsOk(r) == r[1] = "Ok"

\* a <= b, for two numbers given by their decimal digits
decimal_le(a, b) ==
    \/ Len(a) < Len(b)
    \/ /\ Len(a) = Len(b)
       /\ \/ a = b
          \/ \E k \in 1..Len(a) : a[k] < b[k] /\ \A m \in 1..(k - 1) : a[m] = b[m]

\* the number of at most two decimal digits
decimal_value(digits) ==
    IF Len(digits) = 1 THEN digits[1] ELSE digits[1] * 10 + digits[2]

\* u32::MAX, 4294967295
U32Max == <<4, 2, 9, 4, 9, 6, 7, 2, 9, 5>>

\* usize::MAX of a 64-bit target, 18446744073709551615
UsizeMax == <<1, 8, 4, 4, 6, 7, 4, 4, 0, 7, 3, 7, 0, 9, 5, 5, 1, 6, 1, 5>>

\* the 28 variants of ItemType are numbered 0..27
ItemTypeMax == <<2, 7>>

\* usize: a non-negative integer up to usize::MAX
de_usize(j) == IF j[1] = "num" /\ decimal_le(j[2], UsizeMax) THEN Ok(j[2]) ELSE Err

\* u32: a non-negative integer up to u32::MAX
de_u32(j) == IF j[1] = "num" /\ decimal_le(j[2], U32Max) THEN Ok(j[2]) ELSE Err

\* String
de_string(j) == IF j[1] = "str" THEN Ok(j[2]) ELSE Err

\* bug: a value of the wrong kind in an optional slot is read as no value
de_option_usize_lenient(j) ==
    IF IsOk(de_usize(j)) THEN Ok(Some(j[2])) ELSE Ok(None)

\* Option<usize>: null, or the number
de_option_usize(j) ==
    IF j = JNull THEN Ok(None)
    ELSE IF IsOk(de_usize(j)) THEN Ok(Some(j[2])) ELSE Err

\* Option<u32>: null, or the number
de_option_u32(j) ==
    IF j = JNull THEN Ok(None)
    ELSE IF IsOk(de_u32(j)) THEN Ok(Some(j[2])) ELSE Err

\* ItemType (Deserialize_repr): the number of one of the variants
de_ItemType(j) ==
    IF j[1] = "num" /\ decimal_le(j[2], ItemTypeMax)
    THEN Ok(decimal_value(j[2])) ELSE Err

\* the elements of an array
elements(j) == IF j[1] = "arr" THEN j[2] ELSE <<>>

\* Vec<T>: an array whose elements all deserialize; rs are the results of
\* deserializing its elements
de_vec(j, rs) ==
    IF j[1] # "arr" THEN Err
    ELSE IF \A k \in 1..Len(rs) : IsOk(rs[k])
         THEN Ok([k \in 1..Len(rs) |-> rs[k][2]])
         ELSE Err

\* a derived struct of nfields fields is read from an array of at most nfields
\* elements, by position, or from an object, by renamed key
struct_shape(j, nfields) ==
    \/ j[1] = "arr" /\ Len(j[2]) <= nfields
    \/ j[1] = "obj"

\* no value is given for a field
Absent == <<"absent">>

\* the value given for the field at 1-based position pos, renamed key
field(j, pos, key) ==
    IF j[1] = "arr"
    THEN IF pos <= Len(j[2]) THEN j[2][pos] ELSE Absent
    ELSE IF key \in DOMAIN j[2] THEN j[2][key] ELSE Absent

\* a field without #[serde(default)], r the result of deserializing f: its
\* absence is an error
required(f, r) == IF f = Absent THEN Err ELSE r

\* a field with #[serde(default)], r the result of deserializing f: its
\* absence yields Default::default()
defaulted(f, r, default) == IF f = Absent THEN Ok(default) ELSE r

\* struct QualifiedPath
de_QualifiedPath(j) ==
    IF ~struct_shape(j, 2) THEN Err
    ELSE LET index == required(field(j, 1, "0"), de_usize(field(j, 1, "0")))
             path == required(field(j, 2, "1"), de_string(field(j, 2, "1")))
         IN  IF IsOk(index) /\ IsOk(path)
             THEN Ok([index |-> index[2], path |-> path[2]])
             ELSE Err

\* struct PathItem
de_PathItem(j) ==
    IF ~struct_shape(j, 5) THEN Err
    ELSE LET ty == required(field(j, 1, "0"), de_ItemType(field(j, 1, "0")))
             name == required(field(j, 2, "1"), de_string(field(j, 2, "1")))
             path_index ==
                 defaulted(field(j, 3, "2"), de_option_usize(field(j, 3, "2")), None)
             exact_path_index ==
                 defaulted(field(j, 4, "3"), de_option_usize(field(j, 4, "3")), None)
             unbox_flag ==
                 defaulted(field(j, 5, "4"), de_option_u32(field(j, 5, "4")), None)
         IN  IF /\ IsOk(ty) /\ IsOk(name) /\ IsOk(path_index)
                /\ IsOk(exact_path_index) /\ IsOk(unbox_flag)
             THEN Ok([ty |-> ty[2], name |-> name[2], path_index |-> path_index[2],
                      exact_path_index |-> exact_path_index[2],
                      unbox_flag |-> unbox_flag[2]])
             ELSE Err

\* struct Reexport
de_Reexport(j) ==
    IF ~struct_shape(j, 2) THEN Err
    ELSE LET item_index == required(field(j, 1, "0"), de_usize(field(j, 1, "0")))
             path_index == required(field(j, 2, "1"), de_usize(field(j, 2, "1")))
         IN  IF IsOk(item_index) /\ IsOk(path_index)
             THEN Ok([item_index |-> item_index[2], path_index |-> path_index[2]])
             ELSE Err

\* ','
Comma == 44

\* str::split(","): the pieces between the separators
RECURSIVE split(_, _)
split(bytes, piece) ==
    IF bytes = <<>> THEN <<piece>>
    ELSE IF bytes[1] = Comma THEN <<piece>> \o split(Tail(bytes), <<>>)
         ELSE split(Tail(bytes), Append(piece, bytes[1]))

\* StringWithSeparator::<CommaSeparator, String>
de_comma_separated(j) ==
    IF j[1] # "str" THEN Err
    ELSE IF j[2] = <<>> THEN Ok(<<>>) ELSE Ok(split(j[2], <<>>))

\* struct ParamTypes
de_ParamTypes(j) ==
    IF ~struct_shape(j, 2) THEN Err
    ELSE LET item_index == required(field(j, 1, "0"), de_usize(field(j, 1, "0")))
             types == required(field(j, 2, "1"), de_comma_separated(field(j, 2, "1")))
         IN  IF IsOk(item_index) /\ IsOk(types)
             THEN Ok([item_index |-> item_index[2], types |-> types[2]])
             ELSE Err

\* struct ImplDisambiguator
de_ImplDisambiguator(j) ==
    IF ~struct_shape(j, 2) THEN Err
    ELSE LET item_index == required(field(j, 1, "0"), de_usize(field(j, 1, "0")))
             disambiguator == required(field(j, 2, "1"), de_string(field(j, 2, "1")))
         IN  IF IsOk(item_index) /\ IsOk(disambiguator)
             THEN Ok([item_index |-> item_index[2], disambiguator |-> disambiguator[2]])
             ELSE Err

de_names(j) ==
    de_vec(j, [k \in 1..Len(elements(j)) |-> de_string(elements(j)[k])])

de_paths(j) ==
    de_vec(j, [k \in 1..Len(elements(j)) |-> de_QualifiedPath(elements(j)[k])])

de_parent_items(j) ==
    de_vec(j, [k \in 1..Len(elements(j)) |-> de_PathItem(elements(j)[k])])

de_reexports(j) ==
    de_vec(j, [k \in 1..Len(elements(j)) |-> de_Reexport(elements(j)[k])])

de_param_types(j) ==
    de_vec(j, [k \in 1..Len(elements(j)) |-> de_ParamTypes(elements(j)[k])])

de_impl_disambiguators(j) ==
    de_vec(j, [k \in 1..Len(elements(j)) |-> de_ImplDisambiguator(elements(j)[k])])

de_positions(j) ==
    de_vec(j, [k \in 1..Len(elements(j)) |-> de_usize(elements(j)[k])])

\* Option<HashMap<String, Vec<usize>>>
de_aliases(j) ==
    IF j = JNull THEN Ok(None)
    ELSE IF j[1] # "obj" THEN Err
    ELSE IF \A key \in DOMAIN j[2] : IsOk(de_positions(j[2][key]))
         THEN Ok(Some([key \in DOMAIN j[2] |-> de_positions(j[2][key])[2]]))
         ELSE Err

\* struct CrateData
de_CrateData(j) ==
    IF ~struct_shape(j, 13) THEN Err
    ELSE LET types == required(field(j, 1, "t"), de_string(field(j, 1, "t")))
             names == required(field(j, 2, "n"), de_names(field(j, 2, "n")))
             paths == defaulted(field(j, 3, "q"), de_paths(field(j, 3, "q")), <<>>)
             parent_items ==
                 defaulted(field(j, 4, "p"), de_parent_items(field(j, 4, "p")), <<>>)
             reexports == defaulted(field(j, 5, "r"), de_reexports(field(j, 5, "r")), <<>>)
             i_ == defaulted(field(j, 6, "i"), de_string(field(j, 6, "i")), <<>>)
             f_ == defaulted(field(j, 7, "f"), de_string(field(j, 7, "f")), <<>>)
             desc == defaulted(field(j, 8, "D"), de_string(field(j, 8, "D")), <<>>)
             param_types ==
                 defaulted(field(j, 9, "P"), de_param_types(field(j, 9, "P")), <<>>)
             impl_disambiguators ==
                 defaulted(field(j, 10, "b"), de_impl_disambiguators(field(j, 10, "b")), <<>>)
             c_ == defaulted(field(j, 11, "c"), de_string(field(j, 11, "c")), <<>>)
             e_ == defaulted(field(j, 12, "e"), de_string(field(j, 12, "e")), <<>>)
             aliases == defaulted(field(j, 13, "a"), de_aliases(field(j, 13, "a")), None)
         IN  IF /\ IsOk(types) /\ IsOk(names) /\ IsOk(paths) /\ IsOk(parent_items)
                /\ IsOk(reexports) /\ IsOk(i_) /\ IsOk(f_) /\ IsOk(desc)
                /\ IsOk(param_types) /\ IsOk(impl_disambiguators) /\ IsOk(c_)
                /\ IsOk(e_) /\ IsOk(aliases)
             THEN Ok([types |-> types[2], names |-> names[2], paths |-> paths[2],
                      parent_items |-> parent_items[2], reexports |-> reexports[2],
                      i |-> i_[2], f |-> f_[2], desc |-> desc[2],
                      param_types |-> param_types[2],
                      impl_disambiguators |-> impl_disambiguators[2],
                      c |-> c_[2], e |-> e_[2], aliases |-> aliases[2]])
             ELSE Err

\* struct CrateEntry
de_CrateEntry(j) ==
    IF ~struct_shape(j, 2) THEN Err
    ELSE LET name == required(field(j, 1, "0"), de_string(field(j, 1, "0")))
             data == required(field(j, 2, "1"), de_CrateData(field(j, 2, "1")))
         IN  IF IsOk(name) /\ IsOk(data)
             THEN Ok([name |-> name[2], data |-> data[2]])
             ELSE Err

\* serde_json::from_str::<Vec<CrateEntry>> on the value the literal denotes
from_str(j) ==
    de_vec(j, [k \in 1..Len(elements(j)) |-> de_CrateEntry(elements(j)[k])])

\* parse_search_index returns the crate entries
ParseIndex ==
    /\ pc = "json"
    /\ IsOk(from_str(json))
    /\ parse_result' = Some(from_str(json)[2])
    /\ pc' = "parsed"
    /\ UNCHANGED <<crate_name, crate_data, overflow_checks, i, items, last_name,
                   last_path, decoder, calls, result, scan_vars, json>>

\* parse_search_index panics at .expect("Failed to parse JSON")
ParseIndexPanic ==
    /\ pc = "json"
    /\ ~IsOk(from_str(json))
    /\ pc' = "panic"
    /\ UNCHANGED <<crate_name, crate_data, overflow_checks, i, items, last_name,
                   last_path, decoder, calls, result, scan_vars, parse_vars>>

-----------------------------------------------------------------------------
(* The literals parse_search_index is run on *)

\* most elements of a parent-item tuple
MaxElems == 6

\* most elements of a tuple of a struct of two fields
MaxFields == 3

\* "name"
NameBytes == <<110, 97, 109, 101>>

\* {"wrong": "type"}
WrongObject == JObj([key \in {"wrong"} |-> JStr(<<116, 121, 112, 101>>)])

\* u32::MAX + 1, 4294967296
AboveU32 == <<4, 2, 9, 4, 9, 6, 7, 2, 9, 6>>

\* elements of a tuple: 5 (Struct), 30 (no item type), 4294967296
\* (a usize, no u32), -1, "name", null, {"wrong": "type"}
ElemSet ==
    {JNum(<<5>>), JNum(<<3, 0>>), JNum(AboveU32), JNeg(<<1>>), JStr(NameBytes), JNull,
     WrongObject}

\* every key of a crate_data object with a value of its kind
FullObject ==
    [key \in {"t", "n", "q", "p", "r", "i", "f", "D", "P", "b", "c", "e", "a"} |->
        CASE key = "t" -> JStr(<<70>>)
          [] key = "n" -> JArr(<<JStr(<<98>>)>>)
          [] key = "q" -> JArr(<<JArr(<<JNum(<<0>>), JStr(<<112>>)>>)>>)
          [] key = "p" -> JArr(<<JArr(<<JNum(<<5>>), JStr(NameBytes)>>)>>)
          [] key = "r" -> JArr(<<JArr(<<JNum(<<0>>), JNum(<<0>>)>>)>>)
          [] key = "i" -> JStr(<<66, 100>>)
          [] key = "f" -> JStr(<<96>>)
          [] key = "D" -> JStr(<<98>>)
          [] key = "P" -> JArr(<<JArr(<<JNum(<<0>>), JStr(<<84, 44, 85>>)>>)>>)
          [] key = "b" -> JArr(<<JArr(<<JNum(<<0>>), JStr(<<105>>)>>)>>)
          [] key = "c" -> JStr(<<79>>)
          [] key = "e" -> JStr(<<79>>)
          [] key = "a" -> JObj([alias \in {"x"} |-> JArr(<<JNum(<<0>>)>>)])]

\* the literal [["test", object]]
OneCrate(members) == JArr(<<JArr(<<JStr(<<116, 101, 115, 116>>), JObj(members)>>)>>)

\* the keys of the arrays of tuples: paths, parent items, re-exports, param
\* types, impl disambiguators
TupleKeys == {"q", "p", "r", "P", "b"}

\* one crate with t, n and one tuple in one of the arrays of tuples; the other
\* arrays are absent or empty
TupleLiteral ==
    \E at \in TupleKeys, others \in {{}, TupleKeys} :
        \E len \in 0..(IF at = "p" THEN MaxElems ELSE MaxFields) :
            \E tuple \in [1..len -> ElemSet] :
                json = OneCrate([key \in {"t", "n", at} \cup others |->
                                    IF key = at THEN JArr(<<JArr(tuple)>>)
                                    ELSE IF key \in others THEN JArr(<<>>)
                                    ELSE FullObject[key]])

\* one crate with any subset of the keys of a crate_data object
SubsetLiteral ==
    \E keys \in SUBSET DOMAIN FullObject :
        json = OneCrate([key \in keys |-> FullObject[key]])

InitParse ==
    /\ crate_name = ""
    /\ crate_data = EmptyCrate
    /\ overflow_checks = TRUE
    /\ pc = "json"
    /\ i = 0
    /\ items = <<>>
    /\ last_name = <<>>
    /\ last_path = ""
    /\ decoder = new(<<>>)
    /\ calls = <<>>
    /\ result = None
    /\ ScanIdle
    /\ (TupleLiteral \/ SubsetLiteral)
    /\ parse_result = None

NextParse == ParseIndex \/ ParseIndexPanic

SpecParse == InitParse /\ [][NextParse]_vars

-----------------------------------------------------------------------------
(* Properties of decode_crate, checked under Spec *)

Max(S) == CHOOSE x \in S : \A y \in S : y <= x

Min(S) == CHOOSE x \in S : \A y \in S : x <= y

\* indices of the overlay entries of `paths` keyed by 0-based position pos
PathEntries(pos) ==
    {j \in 1..Len(crate_data.paths) : crate_data.paths[j].index = pos}

\* indices of the overlay entries of `reexports` keyed by 0-based position pos
ReexportEntries(pos) ==
    {j \in 1..Len(crate_data.reexports) : crate_data.reexports[j].item_index = pos}

\* the path_index of the re-export entry in force for position pos
ReexportIndex(pos) == crate_data.reexports[Max(ReexportEntries(pos))].path_index

\* the items pushed so far are in position order: the k-th (0-based) has
\* id = k and bit_index = k + 1 and carries the kind of the k-th type code; a
\* returned result is these items, exactly len(types) of them
PositionOrder ==
    /\ Len(items) = i
    /\ Len(items) <= Len(crate_data.types)
    /\ \A k \in 1..Len(items) :
          /\ items[k].id = k - 1
          /\ items[k].bit_index = k
          /\ crate_data.types[k] \in BaseChar..(BaseChar + LastItemType)
                => items[k].item_type = crate_data.types[k] - BaseChar
    /\ pc = "done" => /\ result = Some(items)
                      /\ Len(items) = Len(crate_data.types)

\* C1: for every crate name and every CrateData, decode_crate returns exactly
\* len(types) items in position order, the k-th item (0-based) with id = k and
\* bit_index = k + 1; no item is dropped, duplicated or reordered, and no
\* CrateData makes the decoding end without a result.
C1_ItemsInPositionOrder == PositionOrder /\ pc # "panic"

\* C2: a crate whose types and names differ in length is never decoded to a
\* returned item sequence: decoding it ends in an error.
C2_LengthMismatchIsError ==
    Len(crate_data.types) # Len(crate_data.names) => pc # "done"

\* the nearest non-empty raw name at or before 1-based index k, or ""
RECURSIVE NearestName(_, _)
NearestName(names, k) ==
    IF k = 0 THEN <<>>
    ELSE IF names[k] # <<>> THEN names[k] ELSE NearestName(names, k - 1)

\* C3: the resolved name of position k is names[k] when that is non-empty,
\* otherwise the resolved name of position k - 1, and "" at position 0; that is,
\* the nearest non-empty raw name at or before k, or "" if there is none.
C3_NameReuse ==
    \A k \in 1..Len(items) :
        /\ items[k].name =
              IF crate_data.names[k] # <<>> THEN crate_data.names[k]
              ELSE IF k = 1 THEN <<>> ELSE items[k - 1].name
        /\ items[k].name = NearestName(crate_data.names, k)

\* two empty names in a row after a named item have been resolved
C3_Witness ==
    /\ Len(items) >= 3
    /\ crate_data.names[1] # <<>>
    /\ crate_data.names[2] = <<>>
    /\ crate_data.names[3] = <<>>

\* C4: the resolved path of position k is the paths entry keyed by k when there
\* is one (the last one, if several), otherwise the resolved path - not the
\* exact path - of position k - 1, and "" at position 0; names play no part.
C4_PathReuse ==
    \A k \in 1..Len(items) :
        items[k].path =
            IF PathEntries(k - 1) # {}
            THEN crate_data.paths[Max(PathEntries(k - 1))].path
            ELSE IF k = 1 THEN "" ELSE items[k - 1].path

\* an item without a paths entry follows an item whose exact path differs
\* from its path
C4_Witness ==
    \E k \in 2..Len(items) :
        /\ PathEntries(k - 1) = {}
        /\ items[k - 1].exact_path # items[k - 1].path

\* the values successive calls of next() return on decoder d, up to n calls
RECURSIVE decoded_values(_, _)
decoded_values(d, n) ==
    IF n = 0 THEN <<>>
    ELSE LET r == next(d) IN <<r.value>> \o decoded_values(r.decoder, n - 1)

\* C5: next() is called once per position, in position order, so the item at
\* position k gets the k-th value decoded from the stream; its parent reference
\* is Some(v - 1) exactly when that value v is greater than 0, and None when v
\* is 0 or negative or the stream is exhausted.
C5_ParentResolution ==
    /\ Len(calls) = Len(items)
    /\ \A k \in 1..Len(items) :
          LET v == calls[k].value
          IN  /\ v = decoded_values(new(crate_data.i), k)[k]
              /\ calls[k].from >= Len(crate_data.i) => v = None
              /\ IF v # None /\ v[2] > 0
                 THEN items[k].parent_index = Some(v[2] - 1)
                 ELSE items[k].parent_index = None

\* one crate with a positive, a non-positive and a missing parent value
C5_Witness ==
    /\ Len(items) >= 3
    /\ \E k \in 1..Len(items) : IsSome(items[k].parent_index)
    /\ \E k \in 1..Len(items) : calls[k].value # None /\ calls[k].value[2] < 0
    /\ \E k \in 1..Len(items) : calls[k].value = None

\* C6: every parent reference is a valid index into parent_items.
C6_ParentIndexInRange ==
    \A k \in 1..Len(items) :
        IsSome(items[k].parent_index)
            => items[k].parent_index[2] < Len(crate_data.parent_items)

\* C7: without a re-export entry the exact path is the resolved path; with an
\* entry whose path is not found it is the resolved path too; with an entry
\* that leads to a path different from the resolved path, it differs from it.
C7_ExactPathFallbacks ==
    \A k \in 1..Len(items) :
        IF ReexportEntries(k - 1) = {}
        THEN items[k].exact_path = items[k].path
        ELSE LET found == PathEntries(ReexportIndex(k - 1))
             IN  /\ found = {} => items[k].exact_path = items[k].path
                 /\ (found # {} /\ crate_data.paths[Max(found)].path # items[k].path)
                       => items[k].exact_path # items[k].path

\* one re-export whose path is not found, on an item with a non-empty path,
\* and one re-export that leads to a different path
C7_Witness ==
    /\ \E k \in 1..Len(items) :
          /\ ReexportEntries(k - 1) # {}
          /\ PathEntries(ReexportIndex(k - 1)) = {}
          /\ items[k].path # ""
    /\ \E k \in 1..Len(items) :
          /\ ReexportEntries(k - 1) # {}
          /\ PathEntries(ReexportIndex(k - 1)) # {}
          /\ items[k].exact_path # items[k].path

\* C8: the path_index r of a re-export entry indexes the paths array: when
\* r < len(paths) the exact path of the item is paths[r].path.
C8_ReexportIndexesPathsArray ==
    \A k \in 1..Len(items) :
        (ReexportEntries(k - 1) # {} /\ ReexportIndex(k - 1) < Len(crate_data.paths))
            => items[k].exact_path = crate_data.paths[ReexportIndex(k - 1) + 1].path

\* C12: the kind of every item is the variant whose discriminant is its type
\* code minus 'A' when that is in 0..27 and Module for every other code, above
\* the range or below 'A'; no type code aborts the decoding (the only abort is
\* a position without a name).
C12_ItemKindTotal ==
    /\ \A k \in 1..Len(items) :
          items[k].item_type =
              IF crate_data.types[k] - BaseChar \in 0..LastItemType
              THEN crate_data.types[k] - BaseChar
              ELSE Module
    /\ pc = "panic" => i >= Len(crate_data.names)

-----------------------------------------------------------------------------
(* Properties of VlqHexDecoder::next, checked under SpecVlq *)

\* 1-based indices of the terminal bytes of string s after 0-based offset off
TerminalsFrom(s, off) == {j \in (off + 1)..Len(s) : s[j] >= Terminal}

\* acc = (acc << 4) | (code & 15) folded over s[a..b], in order
RECURSIVE FoldNibbles(_, _, _)
FoldNibbles(s, a, b) ==
    IF b < a THEN 0 ELSE FoldNibbles(s, a, b - 1) * 16 + (s[b] % 16)

\* -(acc >> 1) when bit 0 of acc is 1, acc >> 1 otherwise
SignMagnitude(acc) == IF acc % 2 = 1 THEN 0 - (acc \div 2) ELSE acc \div 2

\* C9: a call of next() at a cursor with a terminal byte ahead consumes the
\* run of continuation bytes at the cursor and exactly one terminal byte, folds
\* the consumed bytes as acc = (acc << 4) | (code & 15) in order and returns
\* -(acc >> 1) when bit 0 of acc is 1 and acc >> 1 otherwise; "a" yields 0, "b"
\* yields 1 and "aba" yields 0, 1, 0.
C9_VlqValue ==
    /\ \A k \in 1..Len(calls) :
          LET c == calls[k]
              ts == TerminalsFrom(decoder.string, c.from)
          IN  /\ c.from = IF k = 1 THEN 0 ELSE calls[k - 1].to
              /\ ts # {} =>
                    /\ c.to = Min(ts)
                    /\ c.value = Some(SignMagnitude(
                                     FoldNibbles(decoder.string, c.from + 1, Min(ts))))
    /\ (decoder.string = <<97>> /\ Len(calls) >= 1) => calls[1].value = Some(0)
    /\ (decoder.string = <<98>> /\ Len(calls) >= 1) => calls[1].value = Some(1)
    /\ (decoder.string = <<97, 98, 97>> /\ Len(calls) >= 3) =>
          /\ calls[1].value = Some(0)
          /\ calls[2].value = Some(1)
          /\ calls[3].value = Some(0)

\* a call has consumed two continuation bytes and a terminal byte and
\* returned a negative value
C9_Witness ==
    \E k \in 1..Len(calls) :
        /\ calls[k].to = calls[k].from + 3
        /\ decoder.string[calls[k].to] >= Terminal
        /\ calls[k].value[2] < 0

\* C10: a call of next() at a cursor with only continuation bytes ahead yields
\* no integer, so a string yields as many integers as it has terminal bytes.
C10_UnterminatedTailYieldsNothing ==
    /\ \A k \in 1..Len(calls) :
          (calls[k].from < Len(decoder.string)
             /\ TerminalsFrom(decoder.string, calls[k].from) = {})
                => calls[k].value = None
    /\ Cardinality({k \in 1..Len(calls) : calls[k].value # None})
          <= Cardinality(TerminalsFrom(decoder.string, 0))

\* C11: over any sequence of next() calls the cursor starts where the previous
\* call left it, never decreases and never exceeds the string length; a call
\* that returns an integer advances it by at least one byte; a call returns
\* end-of-stream exactly when the cursor has consumed the whole string, every
\* call after an end-of-stream returns end-of-stream, and at most len(string)
\* integers are produced.
C11_CursorDiscipline ==
    /\ decoder.offset <= Len(decoder.string)
    /\ decoder.offset = IF calls = <<>> THEN 0 ELSE calls[Len(calls)].to
    /\ \A k \in 1..Len(calls) :
          /\ calls[k].from = IF k = 1 THEN 0 ELSE calls[k - 1].to
          /\ calls[k].from <= calls[k].to
          /\ calls[k].to <= Len(decoder.string)
          /\ calls[k].value # None => calls[k].to >= calls[k].from + 1
          /\ calls[k].value = None <=> calls[k].from = Len(decoder.string)
          /\ (k > 1 /\ calls[k - 1].value = None) => calls[k].value = None
    /\ Cardinality({k \in 1..Len(calls) : calls[k].value # None}) <= Len(decoder.string)

\* two integers were returned, then end-of-stream twice
C11_Witness ==
    /\ Len(calls) >= 4
    /\ calls[1].value # None
    /\ calls[2].value # None
    /\ calls[Len(calls) - 1].value = None
    /\ calls[Len(calls)].value = None


-----------------------------------------------------------------------------
(* Properties of extract_json_string and scan::execute, checked under SpecScan *)

\* C13: a file written as prefix + "JSON.parse('" + E + "')" + suffix, where E
\* is the payload P with every ' replaced by \', is extracted to exactly P:
\* extraction does not panic on it, and the literal it returns is P.
C13_WrapperRoundTrip ==
    IsSome(payload) =>
        /\ IsSome(extract_json_string(content))
        /\ IsSome(json_string) => json_string = payload

\* the file has an opening delimiter and a closing delimiter after it
HasBothDelimiters(text) ==
    \E p \in 0..Len(text) :
        /\ \A k \in 1..Len(start_pattern) :
              p + k <= Len(text) /\ text[p + k] = start_pattern[k]
        /\ \E q \in (p + Len(start_pattern))..Len(text) :
              \A k \in 1..Len(end_pattern) :
                  q + k <= Len(text) /\ text[q + k] = end_pattern[k]

\* C14: on a file that lacks the opening delimiter, or lacks a closing
\* delimiter after it, the run ends in a panic of extract_json_string once the
\* file is read: no literal is ever returned (empty or partial), nothing is
\* parsed or decoded, and no report (of zero items or any other count) is made.
C14_WrapperFailure ==
    ~HasBothDelimiters(content) =>
        /\ json_string = None
        /\ crate_entries = None
        /\ all_items = <<>>
        /\ report = None
        /\ pc \in {"start", "err", "read", "panic"}
        /\ pc = "read" => (ENABLED ExtractPanic) /\ ~(ENABLED Extract)

\* a file with the opening delimiter and no closing delimiter has been read
\* and extraction has panicked
C14_Witness ==
    /\ ~HasBothDelimiters(content)
    /\ IsSome(find(content, start_pattern))
    /\ pc = "panic"

\* decode_crate run on one crate alone, after n iterations
RECURSIVE decode_alone(_, _, _)
decode_alone(name_, cd, n) ==
    IF n = 0
    THEN [items |-> <<>>, last_name |-> <<>>, last_path |-> "", decoder |-> new(cd.i)]
    ELSE LET st == decode_alone(name_, cd, n - 1)
             r == next(st.decoder)
             item == search_item(name_, cd, n - 1, st.last_name, st.last_path, r.value)
         IN  [items |-> Append(st.items, item),
              last_name |-> update_last_name(item.name, cd.names[n]),
              last_path |-> update_last_path(item.path, item.exact_path),
              decoder |-> r.decoder]

\* the items of the first n crate entries, each decoded alone, in source order
RECURSIVE concat_alone(_, _)
concat_alone(es, n) ==
    IF n = 0 THEN <<>>
    ELSE concat_alone(es, n - 1)
         \o decode_alone(es[n].name, es[n].data, Len(es[n].data.types)).items

\* C17: the combined item sequence is the concatenation, in source order, of
\* the items of each crate decoded alone; the crate being decoded has produced
\* exactly what decoding it alone produces, its cursor is where decoding it
\* alone puts it, and an empty name or a missing path at its position 0
\* resolves to "".
C17_CrateIndependence ==
    IsSome(crate_entries) =>
        /\ entry <= Len(crate_entries[2])
        /\ all_items = concat_alone(crate_entries[2], entry)
        /\ pc \in {"loop", "done"} =>
              /\ crate_name = crate_entries[2][entry + 1].name
              /\ crate_data = crate_entries[2][entry + 1].data
              /\ items = decode_alone(crate_name, crate_data, i).items
              /\ decoder = decode_alone(crate_name, crate_data, i).decoder
              /\ (i >= 1 /\ crate_data.names[1] = <<>>) => items[1].name = <<>>
              /\ (i >= 1 /\ PathEntries(0) = {}) => items[1].path = ""
        /\ pc = "ok" => report = Some(Len(search(concat_alone(crate_entries[2],
                                                              Len(crate_entries[2])),
                                                 symbol)))

\* the second crate starts with an empty name and no path after a first crate
\* that ended on a name, a path and a consumed stream
C17_Witness ==
    /\ IsSome(crate_entries)
    /\ entry = 1
    /\ pc = "loop"
    /\ i >= 1
    /\ all_items # <<>>
    /\ all_items[Len(all_items)].name # <<>>
    /\ all_items[Len(all_items)].path # ""
    /\ crate_entries[2][1].data.i # <<>>
    /\ crate_data.i # <<>>
    /\ crate_data.names[1] = <<>>
    /\ PathEntries(0) = {}
    /\ items[1].name = <<>>
    /\ items[1].path = ""
    /\ calls[1].from = 0


-----------------------------------------------------------------------------
(* 32-bit accumulation of next(), checked under SpecVlqLong *)

\* 2^27: the bits of n >> 1 that survive one more shift by 4
HalfKept == 134217728

\* 2^31 - 1
MaxMagnitude == 2147483647

\* the group's value modulo 2^32, as [half |-> value \div 2, low |-> value % 2],
\* after folding the first k bytes of the group
RECURSIVE GroupMod32(_, _)
GroupMod32(group, k) ==
    IF k = 0 THEN [half |-> 0, low |-> 0]
    ELSE LET before == GroupMod32(group, k - 1)
             nibble == group[k] % 16
         IN  [half |-> (before.half % HalfKept) * 16 + before.low * 8 + nibble \div 2,
              low |-> nibble % 2]

\* the sign/magnitude decoding of a value modulo 2^32
SignMagnitudeMod32(m) == IF m.low = 1 THEN 0 - m.half ELSE m.half

\* C18: on every string, groups of more than 8 bytes included, the next call
\* of next() returns None (at the end of the string) or an integer whose
\* negation does not overflow, and every integer v that was returned
\* satisfies -(2^31 - 1) <= v <= 2^31 - 1 and is the sign/magnitude decoding of
\* the group's value modulo 2^32, to which only the last 8 folded nibbles
\* contribute.
C18_Accumulation32 ==
    /\ LET r == next(decoder)
       IN  /\ r.value = None <=> decoder.offset >= Len(decoder.string)
           /\ r.value # None =>
                  0 - MaxMagnitude <= r.value[2] /\ r.value[2] <= MaxMagnitude
    /\ \A k \in 1..Len(calls) :
          calls[k].value # None =>
              LET group == SubSeq(decoder.string, calls[k].from + 1, calls[k].to)
                  last8 == SubSeq(group, Max({1, Len(group) - 7}), Len(group))
                  v == calls[k].value[2]
              IN  /\ 0 - MaxMagnitude <= v
                  /\ v <= MaxMagnitude
                  /\ v = SignMagnitudeMod32(GroupMod32(group, Len(group)))
                  /\ v = SignMagnitudeMod32(GroupMod32(last8, Len(last8)))

\* a group of more than 8 bytes whose first nibble is not 0 was decoded, to
\* the least integer next() can return
C18_Witness ==
    \E k \in 1..Len(calls) :
        /\ calls[k].to - calls[k].from > 8
        /\ decoder.string[calls[k].from + 1] % 16 # 0
        /\ calls[k].value = Some(0 - MaxMagnitude)


-----------------------------------------------------------------------------
(* Properties of parse_search_index, checked under SpecParse *)

\* the members of the crate_data object of a one-crate literal
Members == json[2][1][2][2][2]

\* the tuples given under key, if any
Tuples(key) == IF key \in DOMAIN Members THEN Members[key][2] ELSE <<>>

\* the declared types of the positional fields of the tuples under key:
\* QualifiedPath, PathItem, Reexport, ParamTypes, ImplDisambiguator
FieldTypes(key) ==
    CASE key = "q" -> <<"usize", "String">>
      [] key = "p" -> <<"ItemType", "String", "Option<usize>", "Option<usize>",
                        "Option<u32>">>
      [] key = "r" -> <<"usize", "usize">>
      [] key = "P" -> <<"usize", "String">>
      [] key = "b" -> <<"usize", "String">>

\* the fields a tuple must give: all but the trailing optional ones
RequiredFields(key) ==
    Cardinality({pos \in 1..Len(FieldTypes(key)) :
                    FieldTypes(key)[pos] \notin {"Option<usize>", "Option<u32>"}})

\* elem has the JSON kind of type ty: a number for a numeric type, a string
\* for a string, a number or null for an optional number
HasKind(ty, elem) ==
    CASE ty = "String" -> elem[1] = "str"
      [] ty \in {"ItemType", "usize"} -> elem[1] \in {"num", "neg"}
      [] ty \in {"Option<usize>", "Option<u32>"} -> elem[1] \in {"num", "neg", "null"}

\* elem is a value of type ty: of its JSON kind, and a number one of the
\* numbers of the type (0..27 for an item type, 0..usize::MAX, 0..u32::MAX)
HasType(ty, elem) ==
    CASE ty = "String" -> elem[1] = "str"
      [] ty = "ItemType" -> elem[1] = "num" /\ decimal_le(elem[2], ItemTypeMax)
      [] ty = "usize" -> elem[1] = "num" /\ decimal_le(elem[2], UsizeMax)
      [] ty = "Option<usize>" ->
             elem = JNull \/ (elem[1] = "num" /\ decimal_le(elem[2], UsizeMax))
      [] ty = "Option<u32>" ->
             elem = JNull \/ (elem[1] = "num" /\ decimal_le(elem[2], U32Max))

\* the tuple gives its required fields and no more than the fields of its
\* struct
HasFields(key, tuple) ==
    RequiredFields(key) <= Len(tuple) /\ Len(tuple) <= Len(FieldTypes(key))

\* every tuple of the literal gives its fields, each of the JSON kind of its
\* position
AllOfKind ==
    \A key \in TupleKeys : \A k \in 1..Len(Tuples(key)) :
        LET tuple == Tuples(key)[k][2]
        IN  /\ HasFields(key, tuple)
            /\ \A pos \in 1..Len(tuple) : HasKind(FieldTypes(key)[pos], tuple[pos])

\* every tuple of the literal gives its fields, each a value of the type of
\* its position
AllOfType ==
    \A key \in TupleKeys : \A k \in 1..Len(Tuples(key)) :
        LET tuple == Tuples(key)[k][2]
        IN  /\ HasFields(key, tuple)
            /\ \A pos \in 1..Len(tuple) : HasType(FieldTypes(key)[pos], tuple[pos])

\* the literal has the two fields without a default
HasRequired == {"t", "n"} \subseteq DOMAIN Members

\* what an optional index of the tuple denotes
SlotValue(tuple, pos) ==
    IF pos > Len(tuple) \/ tuple[pos] = JNull THEN None ELSE Some(tuple[pos][2])

\* the parsed arrays of tuples hold the values of the literal's tuples, in
\* order, with None for an omitted or null optional position, and are empty
\* for an absent or empty array
TupleValues(data) ==
    /\ data.paths =
           [k \in 1..Len(Tuples("q")) |->
               [index |-> Tuples("q")[k][2][1][2], path |-> Tuples("q")[k][2][2][2]]]
    /\ data.parent_items =
           [k \in 1..Len(Tuples("p")) |->
               LET tuple == Tuples("p")[k][2]
               IN  [ty |-> decimal_value(tuple[1][2]), name |-> tuple[2][2],
                    path_index |-> SlotValue(tuple, 3),
                    exact_path_index |-> SlotValue(tuple, 4),
                    unbox_flag |-> SlotValue(tuple, 5)]]
    /\ data.reexports =
           [k \in 1..Len(Tuples("r")) |->
               [item_index |-> Tuples("r")[k][2][1][2],
                path_index |-> Tuples("r")[k][2][2][2]]]
    /\ Len(data.param_types) = Len(Tuples("P"))
    /\ \A k \in 1..Len(Tuples("P")) :
           data.param_types[k].item_index = Tuples("P")[k][2][1][2]
    /\ data.impl_disambiguators =
           [k \in 1..Len(Tuples("b")) |->
               [item_index |-> Tuples("b")[k][2][1][2],
                disambiguator |-> Tuples("b")[k][2][2][2]]]

\* C15, as stated: parsing fails for the whole literal whenever a positional
\* field of a tuple holds a value of the wrong kind (a non-number at index 0
\* of a parent-item tuple, a string at its path-index slot 2, ...), and it
\* succeeds for tuples whose fields all have the expected kinds, also when
\* the trailing optional positions are omitted and the other arrays are empty.
C15_KindByJsonCategory ==
    (HasRequired /\ pc # "json") =>
        /\ ~AllOfKind => pc = "panic" /\ parse_result = None
        /\ AllOfKind => pc = "parsed"

\* C15, amended: parsing fails for the whole literal whenever a positional
\* field of a tuple is not a value of the type declared for its position: a
\* value of another kind (a non-number at index 0 of a parent-item tuple, a
\* string at its path-index slot 2, ...), a negative number, a number above
\* 27 as an item type, above usize::MAX as a position or above u32::MAX at
\* index 4 of a parent-item tuple.  It succeeds, yielding the tuples' values,
\* when every field is a value of its type, also when the trailing optional
\* positions are omitted and the other arrays are empty.
C15_SchemaKindChecking ==
    (HasRequired /\ pc # "json") =>
        /\ ~AllOfType => pc = "panic" /\ parse_result = None
        /\ AllOfType =>
              /\ pc = "parsed"
              /\ Len(parse_result[2]) = 1
              /\ TupleValues(parse_result[2][1].data)

\* a parent-item tuple of two elements, with the other arrays given and
\* empty, was parsed
C15_Witness ==
    /\ pc = "parsed"
    /\ Len(Tuples("p")) = 1
    /\ Len(Tuples("p")[1][2]) = 2
    /\ \A key \in TupleKeys \ {"p"} : key \in DOMAIN Members /\ Tuples(key) = <<>>
    /\ parse_result[2][1].data.parent_items[1].path_index = None

\* a string at the path-index slot 2 of a parent-item tuple made the parse
\* fail
C15_WitnessWrongKind ==
    /\ pc = "panic"
    /\ HasRequired
    /\ Len(Tuples("p")) = 1
    /\ Len(Tuples("p")[1][2]) = 3
    /\ HasType("ItemType", Tuples("p")[1][2][1])
    /\ HasType("String", Tuples("p")[1][2][2])
    /\ Tuples("p")[1][2][3][1] = "str"

\* a string where a re-export tuple expects a position made the parse fail
C15_WitnessOtherTuple ==
    /\ pc = "panic"
    /\ HasRequired
    /\ Len(Tuples("r")) = 1
    /\ Len(Tuples("r")[1][2]) = 2
    /\ HasType("usize", Tuples("r")[1][2][1])
    /\ Tuples("r")[1][2][2][1] = "str"

\* every field has the kind of its position, and the parse failed on a
\* number that is none of the numbers of the field's type
C15_WitnessOutOfRange == pc = "panic" /\ HasRequired /\ AllOfKind /\ ~AllOfType

\* the literal differs from the full one only by the keys it leaves out
AbsentOnly == \A key \in DOMAIN Members : Members[key] = FullObject[key]

\* C16: parsing a crate_data object succeeds whichever subset of its fields
\* is absent; an absent n, q, p, r, P or b parses as the empty sequence, an
\* absent i, f, D, c or e as the empty string, an absent a as no value.
C16_SchemaDefaults ==
    (pc # "json" /\ AbsentOnly) =>
        /\ pc = "parsed"
        /\ LET data == parse_result[2][1].data
           IN  /\ "n" \notin DOMAIN Members => data.names = <<>>
               /\ "q" \notin DOMAIN Members => data.paths = <<>>
               /\ "p" \notin DOMAIN Members => data.parent_items = <<>>
               /\ "r" \notin DOMAIN Members => data.reexports = <<>>
               /\ "P" \notin DOMAIN Members => data.param_types = <<>>
               /\ "b" \notin DOMAIN Members => data.impl_disambiguators = <<>>
               /\ "i" \notin DOMAIN Members => data.i = <<>>
               /\ "f" \notin DOMAIN Members => data.f = <<>>
               /\ "D" \notin DOMAIN Members => data.desc = <<>>
               /\ "c" \notin DOMAIN Members => data.c = <<>>
               /\ "e" \notin DOMAIN Members => data.e = <<>>
               /\ "a" \notin DOMAIN Members => data.aliases = None

====
